---- MODULE Spec2Model ----
(***************************************************************************)
(* Device Automation Manager of parra-energy                               *)
(* (apps/api/src/services/weather.ts, class AutomationManager).            *)
(*                                                                         *)
(* The in-memory registry is a JavaScript Map: it is modelled as the       *)
(* sequence of its values in insertion order.  Every public operation is   *)
(* one action; the persistence collaborator (DatabaseManager) may reject   *)
(* a write, which is an input of the action (the fault record f).          *)
(* Power is in watts, energy_saved_today in watt-hours (the code keeps     *)
(* kWh = W / 1000).                                                        *)
(***************************************************************************)
EXTENDS Integers, Sequences, FiniteSets, TLC

VARIABLES
    devices,              \* this.devices: Map<string, Device>, in insertion order
    seedNext,             \* initializeDefaultDevices: index of the next seed, 0 = aborted
    lastSurplus,          \* this.lastSurplus
    minSurplusThreshold,  \* this.minSurplusThreshold
    automationStats,      \* this.automationStats
    dbDevices,            \* table devices of the DatabaseManager
    dbEvents,             \* table automation_events of the DatabaseManager
    eventIds,             \* column id of automation_events: <<Date.now(), device id>> per row
    now,                  \* Date.now() when the newest event was built, in milliseconds
    lastCall,             \* the last public call and what it returned
    lastArg,              \* the device control argument of the last public call
    ticks,                \* the frames of the update() calls issued as ticks, in call order
    fronius,              \* SmartFroniusClient: its fields, its sources, its last call
    opCount,              \* number of public calls made so far
    faultsLeft            \* number of calls that may still meet a rejected database write

vars == <<devices, seedNext, lastSurplus, minSurplusThreshold, automationStats,
          dbDevices, dbEvents, eventIds, now, lastCall, lastArg, ticks, fronius,
          opCount, faultsLeft>>

----------------------------------------------------------------------------
(* Bounds of the model *)

MaxOps == 1
MaxFaults == 1
MaxTicks == 2
MaxToggles == 2
MaxClock == 2
MaxErrors == 2

----------------------------------------------------------------------------
(* Seed data *)

defaultDevices ==
    << [id |-> "water-heater", power_consumption |-> 2000, priority |-> "high",
        category |-> "heating", status |-> "off", is_automated |-> TRUE,
        manual_override |-> FALSE],
       [id |-> "washing-machine", power_consumption |-> 1200, priority |-> "medium",
        category |-> "appliance", status |-> "off", is_automated |-> TRUE,
        manual_override |-> FALSE],
       [id |-> "dishwasher", power_consumption |-> 1800, priority |-> "medium",
        category |-> "appliance", status |-> "off", is_automated |-> TRUE,
        manual_override |-> FALSE],
       [id |-> "pool-pump", power_consumption |-> 800, priority |-> "low",
        category |-> "pool", status |-> "off", is_automated |-> TRUE,
        manual_override |-> FALSE],
       [id |-> "ev-charger", power_consumption |-> 3200, priority |-> "medium",
        category |-> "ev_charging", status |-> "off", is_automated |-> TRUE,
        manual_override |-> FALSE],
       [id |-> "air-conditioning", power_consumption |-> 2500, priority |-> "essential",
        category |-> "heating", status |-> "auto", is_automated |-> FALSE,
        manual_override |-> TRUE] >>

DeviceIds == {defaultDevices[i].id : i \in 1..Len(defaultDevices)}

DeviceCategory == {"heating", "appliance", "lighting", "ev_charging", "pool", "other"}

NoRow == [id |-> "", power_consumption |-> 0, priority |-> "", category |-> "",
          status |-> "", is_automated |-> FALSE, manual_override |-> FALSE]

----------------------------------------------------------------------------
(* Inputs *)

\* PowerData readings; surplus = P_PV - P_Load
Readings ==
    { [P_PV |-> 2500, P_Load |-> 0],      \* surplus  2500
      [P_PV |-> 3300, P_Load |-> 0],      \* surplus  3300
      [P_PV |-> 150,  P_Load |-> 100],    \* surplus    50
      [P_PV |-> 100,  P_Load |-> 150],    \* surplus   -50
      [P_PV |-> 500,  P_Load |-> 2000],   \* surplus -1500
      [P_PV |-> 0,    P_Load |-> 3000] }  \* surplus -3000

\* new Date().getHours(): the hours at and on both sides of every bound of the
\* time windows of the code (appliances 10..16, pool 8..18, evening peak
\* 18..22), with midnight and noon; every other hour of the day falls in the
\* same windows as one of these
Hours == {0, 7, 8, 9, 10, 12, 16, 17, 18, 19, 22, 23}

DeviceIdInputs == DeviceIds \cup {"unknown-device"}

Actions == {"turn_on", "turn_off", "toggle"}

Reasons == {[text |-> "api request", watts |-> 0]}

\* f.save: ids whose insertDevice rejects during the call;
\* f.event: ids whose insertAutomationEvent rejects during the call
NoFault == [save |-> {}, event |-> {}]

FaultsOn(ids) ==
    {NoFault}
    \cup { [save |-> {id}, event |-> {}] : id \in ids }
    \cup { [save |-> {}, event |-> {id}] : id \in ids }

FaultInputs == FaultsOn(DeviceIds)

Controls == [device_id : DeviceIdInputs, action : Actions, manual : BOOLEAN]

\* the argument recorded for a call that takes no device id
NoArg == [device_id |-> "", action |-> "", manual |-> FALSE]

\* the argument recorded for activateDevice(deviceId) / deactivateDevice(deviceId)
OnDevice(deviceId) == [device_id |-> deviceId, action |-> "", manual |-> FALSE]

\* setConfiguration({minSurplusThreshold?, enabledCategories?}): has* is false
\* when the optional property is absent
ThresholdInputs == {0, 1500, 3000}

CategoryInputs ==
    { {}, {"heating"}, {"appliance", "pool", "ev_charging"}, DeviceCategory,
      {"heating", "sauna"} }

Configs ==
    { [hasThreshold |-> FALSE, minSurplusThreshold |-> 0,
       hasCategories |-> TRUE, enabledCategories |-> c] : c \in CategoryInputs }
    \cup
    { [hasThreshold |-> TRUE, minSurplusThreshold |-> t,
       hasCategories |-> FALSE, enabledCategories |-> {}] : t \in ThresholdInputs }
    \cup
    { [hasThreshold |-> TRUE, minSurplusThreshold |-> 1500,
       hasCategories |-> TRUE, enabledCategories |-> {"heating"}],
      [hasThreshold |-> FALSE, minSurplusThreshold |-> 0,
       hasCategories |-> FALSE, enabledCategories |-> {}] }

----------------------------------------------------------------------------
(* The Map and the state the operations work on *)

\* Map.get: position of the device with this id, 0 when the Map has no such key
IndexOf(devs, id) ==
    IF \E i \in 1..Len(devs) : devs[i].id = id
    THEN CHOOSE i \in 1..Len(devs) : devs[i].id = id
    ELSE 0

\* the part of the manager's state that the device operations read and write
CurrentState ==
    [devices |-> devices, dbDevices |-> dbDevices, dbEvents |-> dbEvents,
     automationStats |-> automationStats, lastSurplus |-> lastSurplus,
     minSurplusThreshold |-> minSurplusThreshold]

\* getAutomationStats(): a copy of this.automationStats
getAutomationStats == automationStats

Abs(x) == IF x < 0 THEN -x ELSE x

priorityOrder(p) ==
    CASE p = "essential" -> 4
      [] p = "high" -> 3
      [] p = "medium" -> 2
      [] p = "low" -> 1

\* the comparator with the priorities the other way round (a - b)
compareForActivation_Ascending(a, b) ==
    LET priorityDiff == priorityOrder(a.priority) - priorityOrder(b.priority)
    IN  IF priorityDiff # 0 THEN priorityDiff
        ELSE a.power_consumption - b.power_consumption

\* comparator of getAvailableDevicesForActivation: priority descending,
\* then power_consumption ascending
compareForActivation(a, b) ==
    LET priorityDiff == priorityOrder(b.priority) - priorityOrder(a.priority)
    IN  IF priorityDiff # 0 THEN priorityDiff
        ELSE a.power_consumption - b.power_consumption

\* comparator of getActiveAutomatedDevices: priority ascending
compareForDeactivation(a, b) ==
    priorityOrder(a.priority) - priorityOrder(b.priority)

compare(order, a, b) ==
    IF order = "activation" THEN compareForActivation(a, b)
    ELSE compareForDeactivation(a, b)

\* Array.prototype.sort is stable: x goes after the last element that does
\* not compare greater than it
RECURSIVE InsertSorted(_, _, _)
InsertSorted(sorted, x, order) ==
    IF sorted = <<>> THEN <<x>>
    ELSE IF compare(order, x, sorted[Len(sorted)]) < 0
         THEN Append(InsertSorted(SubSeq(sorted, 1, Len(sorted) - 1), x, order),
                     sorted[Len(sorted)])
         ELSE Append(sorted, x)

RECURSIVE StableSort(_, _)
StableSort(s, order) ==
    IF s = <<>> THEN <<>>
    ELSE InsertSorted(StableSort(SubSeq(s, 1, Len(s) - 1), order), s[Len(s)], order)

IsActivationCandidate(device) ==
    device.status = "off" /\ device.is_automated /\ ~device.manual_override

\* the filter of getActiveAutomatedDevices without is_automated
IsDeactivationCandidate_IgnoresAutomated(device) ==
    device.status = "on" /\ ~device.manual_override

IsDeactivationCandidate(device) ==
    device.status = "on" /\ device.is_automated /\ ~device.manual_override

getAvailableDevicesForActivation(devs) ==
    StableSort(SelectSeq(devs, IsActivationCandidate), "activation")

getActiveAutomatedDevices(devs) ==
    StableSort(SelectSeq(devs, IsDeactivationCandidate), "deactivation")

\* canActivateDevice without the time window of the pool category
canActivateDevice_PoolAnyHour(device, surplus, currentHour) ==
    IF device.power_consumption > surplus THEN FALSE
    ELSE CASE device.category = "appliance" -> currentHour >= 10 /\ currentHour <= 16
           [] device.category = "ev_charging" -> surplus > 2000
           [] OTHER -> TRUE

\* canActivateDevice without the test against the surplus
canActivateDevice_NoPowerCheck(device, surplus, currentHour) ==
    CASE device.category = "appliance" -> currentHour >= 10 /\ currentHour <= 16
      [] device.category = "heating" -> TRUE
      [] device.category = "pool" -> currentHour >= 8 /\ currentHour <= 18
      [] device.category = "ev_charging" -> surplus > 2000
      [] OTHER -> TRUE

canActivateDevice(device, surplus, currentHour) ==
    IF device.power_consumption > surplus THEN FALSE
    ELSE CASE device.category = "appliance" -> currentHour >= 10 /\ currentHour <= 16
           [] device.category = "heating" -> TRUE
           [] device.category = "pool" -> currentHour >= 8 /\ currentHour <= 18
           [] device.category = "ev_charging" -> surplus > 2000
           [] OTHER -> TRUE

\* shouldDeactivateDevice shedding every device but the essential ones in the
\* evening peak
shouldDeactivateDevice_PeakShedsHigh(device, deficit, currentHour) ==
    IF device.priority = "essential" THEN FALSE
    ELSE IF device.priority = "low" THEN TRUE
    ELSE IF device.priority = "medium" /\ deficit > 1000 THEN TRUE
    ELSE currentHour >= 18 /\ currentHour <= 22

\* shouldDeactivateDevice without the essential guard
shouldDeactivateDevice_NoEssentialGuard(device, deficit, currentHour) ==
    IF device.priority = "low" THEN TRUE
    ELSE IF device.priority = "medium" /\ deficit > 1000 THEN TRUE
    ELSE IF currentHour >= 18 /\ currentHour <= 22 THEN device.priority # "high"
    ELSE FALSE

shouldDeactivateDevice(device, deficit, currentHour) ==
    IF device.priority = "essential" THEN FALSE
    ELSE IF device.priority = "low" THEN TRUE
    ELSE IF device.priority = "medium" /\ deficit > 1000 THEN TRUE
    ELSE IF currentHour >= 18 /\ currentHour <= 22 THEN device.priority # "high"
    ELSE FALSE

----------------------------------------------------------------------------
(* Persistence collaborator *)

\* DatabaseManager.insertDevice: INSERT OR REPLACE INTO devices
insertDevice(st, device) ==
    [st EXCEPT !.dbDevices[device.id] = device]

\* DatabaseManager.insertAutomationEvent: INSERT INTO automation_events
insertAutomationEvent(st, event) ==
    [st EXCEPT !.dbEvents = Append(@, event)]

\* the ids of the rows of automation_events
IdsOf(ids) == { ids[i] : i \in DOMAIN ids }

\* the events table without the primary key on the column id
PrimaryKeyFault_NoConstraint(ids, clock, deviceId) == NoFault

\* id TEXT PRIMARY KEY: the INSERT of an event whose id evt-<clock>-<deviceId>
\* is in the table already is rejected
PrimaryKeyFault(ids, clock, deviceId) ==
    IF <<clock, deviceId>> \in IdsOf(ids)
    THEN [save |-> {}, event |-> {deviceId}]
    ELSE NoFault

----------------------------------------------------------------------------
(* Device operations: each yields the state it leaves and what it returns *)

\* activateDevice restoring the status when a database write is rejected
activateDevice_RollsBack(st, deviceId, reason, f) ==
    LET i == IndexOf(st.devices, deviceId) IN
    IF i = 0 THEN [st |-> st, ret |-> "false"]
    ELSE IF st.devices[i].status = "on" \/ st.devices[i].manual_override
    THEN [st |-> st, ret |-> "false"]
    ELSE
      LET st1 == [st EXCEPT !.devices[i].status = "on"]
          device == st1.devices[i]
          event == [device_id |-> deviceId, event_type |-> "turn_on",
                    trigger_reason |-> reason, surplus_watts |-> st1.lastSurplus,
                    success |-> TRUE]
      IN  IF deviceId \in f.save THEN [st |-> st, ret |-> "false"]
          ELSE LET st2 == insertDevice(st1, device) IN
               IF deviceId \in f.event
               THEN [st |-> [st2 EXCEPT !.devices = st.devices], ret |-> "false"]
               ELSE LET st3 == insertAutomationEvent(st2, event) IN
                    [st |-> [st3 EXCEPT
                               !.automationStats.automation_events = @ + 1,
                               !.automationStats.energy_saved_today =
                                   @ + device.power_consumption],
                     ret |-> "true"]

\* activateDevice without the manual_override test of its guard
activateDevice_IgnoresOverride(st, deviceId, reason, f) ==
    LET i == IndexOf(st.devices, deviceId) IN
    IF i = 0 THEN [st |-> st, ret |-> "false"]
    ELSE IF st.devices[i].status = "on"
    THEN [st |-> st, ret |-> "false"]
    ELSE
      LET st1 == [st EXCEPT !.devices[i].status = "on"]
          device == st1.devices[i]
          event == [device_id |-> deviceId, event_type |-> "turn_on",
                    trigger_reason |-> reason, surplus_watts |-> st1.lastSurplus,
                    success |-> TRUE]
      IN  IF deviceId \in f.save THEN [st |-> st1, ret |-> "false"]
          ELSE LET st2 == insertDevice(st1, device) IN
               IF deviceId \in f.event THEN [st |-> st2, ret |-> "false"]
               ELSE LET st3 == insertAutomationEvent(st2, event) IN
                    [st |-> [st3 EXCEPT
                               !.automationStats.automation_events = @ + 1,
                               !.automationStats.energy_saved_today =
                                   @ + device.power_consumption],
                     ret |-> "true"]

activateDevice(st, deviceId, reason, f) ==
    LET i == IndexOf(st.devices, deviceId) IN
    IF i = 0 THEN [st |-> st, ret |-> "false"]
    ELSE IF st.devices[i].status = "on" \/ st.devices[i].manual_override
    THEN [st |-> st, ret |-> "false"]
    ELSE
      LET st1 == [st EXCEPT !.devices[i].status = "on"]
          device == st1.devices[i]
          event == [device_id |-> deviceId, event_type |-> "turn_on",
                    trigger_reason |-> reason, surplus_watts |-> st1.lastSurplus,
                    success |-> TRUE]
      IN  IF deviceId \in f.save THEN [st |-> st1, ret |-> "false"]
          ELSE LET st2 == insertDevice(st1, device) IN
               IF deviceId \in f.event THEN [st |-> st2, ret |-> "false"]
               ELSE LET st3 == insertAutomationEvent(st2, event) IN
                    [st |-> [st3 EXCEPT
                               !.automationStats.automation_events = @ + 1,
                               !.automationStats.energy_saved_today =
                                   @ + device.power_consumption],
                     ret |-> "true"]

\* deactivateDevice without the manual_override test of its guard
deactivateDevice_IgnoresOverride(st, deviceId, reason, f) ==
    LET i == IndexOf(st.devices, deviceId) IN
    IF i = 0 THEN [st |-> st, ret |-> "false"]
    ELSE IF st.devices[i].status = "off"
    THEN [st |-> st, ret |-> "false"]
    ELSE
      LET st1 == [st EXCEPT !.devices[i].status = "off"]
          device == st1.devices[i]
          event == [device_id |-> deviceId, event_type |-> "turn_off",
                    trigger_reason |-> reason, surplus_watts |-> st1.lastSurplus,
                    success |-> TRUE]
      IN  IF deviceId \in f.save THEN [st |-> st1, ret |-> "false"]
          ELSE LET st2 == insertDevice(st1, device) IN
               IF deviceId \in f.event THEN [st |-> st2, ret |-> "false"]
               ELSE LET st3 == insertAutomationEvent(st2, event) IN
                    [st |-> [st3 EXCEPT !.automationStats.automation_events = @ + 1],
                     ret |-> "true"]

deactivateDevice(st, deviceId, reason, f) ==
    LET i == IndexOf(st.devices, deviceId) IN
    IF i = 0 THEN [st |-> st, ret |-> "false"]
    ELSE IF st.devices[i].status = "off" \/ st.devices[i].manual_override
    THEN [st |-> st, ret |-> "false"]
    ELSE
      LET st1 == [st EXCEPT !.devices[i].status = "off"]
          device == st1.devices[i]
          event == [device_id |-> deviceId, event_type |-> "turn_off",
                    trigger_reason |-> reason, surplus_watts |-> st1.lastSurplus,
                    success |-> TRUE]
      IN  IF deviceId \in f.save THEN [st |-> st1, ret |-> "false"]
          ELSE LET st2 == insertDevice(st1, device) IN
               IF deviceId \in f.event THEN [st |-> st2, ret |-> "false"]
               ELSE LET st3 == insertAutomationEvent(st2, event) IN
                    [st |-> [st3 EXCEPT !.automationStats.automation_events = @ + 1],
                     ret |-> "true"]

\* the loop of handleSolarSurplus ending at the first activation that fails
RECURSIVE SurplusWalk_StopsOnFailure(_, _, _, _, _, _, _)
SurplusWalk_StopsOnFailure(st, availableDevices, i, remainingSurplus, surplus, currentHour, f) ==
    IF i > Len(availableDevices) THEN st
    ELSE
      LET device == availableDevices[i] IN
      IF canActivateDevice(device, remainingSurplus, currentHour)
      THEN LET r == activateDevice(st, device.id,
                        [text |-> "Solar surplus", watts |-> surplus], f)
               remaining == remainingSurplus - device.power_consumption
           IN  IF r.ret = "false" \/ remaining < st.minSurplusThreshold THEN r.st
               ELSE SurplusWalk_StopsOnFailure(r.st, availableDevices, i + 1,
                                               remaining, surplus, currentHour, f)
      ELSE SurplusWalk_StopsOnFailure(st, availableDevices, i + 1, remainingSurplus,
                                      surplus, currentHour, f)

\* the loop of handleSolarSurplus without "remainingSurplus -= power_consumption"
RECURSIVE SurplusWalk_NoDecrement(_, _, _, _, _, _, _)
SurplusWalk_NoDecrement(st, availableDevices, i, remainingSurplus, surplus, currentHour, f) ==
    IF i > Len(availableDevices) THEN st
    ELSE
      LET device == availableDevices[i] IN
      IF canActivateDevice(device, remainingSurplus, currentHour)
      THEN LET st1 == activateDevice(st, device.id,
                        [text |-> "Solar surplus", watts |-> surplus], f).st
           IN  IF remainingSurplus < st.minSurplusThreshold THEN st1
               ELSE SurplusWalk_NoDecrement(st1, availableDevices, i + 1,
                                            remainingSurplus, surplus, currentHour, f)
      ELSE SurplusWalk_NoDecrement(st, availableDevices, i + 1, remainingSurplus,
                                   surplus, currentHour, f)

\* the loop of handleSolarSurplus from candidate i on
RECURSIVE SurplusWalk(_, _, _, _, _, _, _)
SurplusWalk(st, availableDevices, i, remainingSurplus, surplus, currentHour, f) ==
    IF i > Len(availableDevices) THEN st
    ELSE
      LET device == availableDevices[i] IN
      IF canActivateDevice(device, remainingSurplus, currentHour)
      THEN LET st1 == activateDevice(st, device.id,
                        [text |-> "Solar surplus", watts |-> surplus], f).st
               remaining == remainingSurplus - device.power_consumption
           IN  IF remaining < st.minSurplusThreshold THEN st1
               ELSE SurplusWalk(st1, availableDevices, i + 1, remaining,
                                surplus, currentHour, f)
      ELSE SurplusWalk(st, availableDevices, i + 1, remainingSurplus,
                       surplus, currentHour, f)

handleSolarSurplus(st, surplus, currentHour, f) ==
    SurplusWalk(st, getAvailableDevicesForActivation(st.devices), 1, surplus,
                surplus, currentHour, f)

\* the loop of handleEnergyDeficit without the early stop
RECURSIVE DeficitWalk_NoStop(_, _, _, _, _, _, _)
DeficitWalk_NoStop(st, activeDevices, i, remainingDeficit, deficit, currentHour, f) ==
    IF i > Len(activeDevices) THEN st
    ELSE
      LET device == activeDevices[i] IN
      IF shouldDeactivateDevice(device, remainingDeficit, currentHour)
      THEN LET st1 == deactivateDevice(st, device.id,
                        [text |-> "Energy deficit", watts |-> deficit], f).st
           IN  DeficitWalk_NoStop(st1, activeDevices, i + 1,
                                  remainingDeficit - device.power_consumption,
                                  deficit, currentHour, f)
      ELSE DeficitWalk_NoStop(st, activeDevices, i + 1, remainingDeficit,
                              deficit, currentHour, f)

\* the loop of handleEnergyDeficit from candidate i on
RECURSIVE DeficitWalk(_, _, _, _, _, _, _)
DeficitWalk(st, activeDevices, i, remainingDeficit, deficit, currentHour, f) ==
    IF i > Len(activeDevices) THEN st
    ELSE
      LET device == activeDevices[i] IN
      IF shouldDeactivateDevice(device, remainingDeficit, currentHour)
      THEN LET st1 == deactivateDevice(st, device.id,
                        [text |-> "Energy deficit", watts |-> deficit], f).st
               remaining == remainingDeficit - device.power_consumption
           IN  IF remaining < st.minSurplusThreshold THEN st1
               ELSE DeficitWalk(st1, activeDevices, i + 1, remaining,
                                deficit, currentHour, f)
      ELSE DeficitWalk(st, activeDevices, i + 1, remainingDeficit,
                       deficit, currentHour, f)

handleEnergyDeficit(st, deficit, currentHour, f) ==
    DeficitWalk(st, getActiveAutomatedDevices(st.devices), 1, deficit,
                deficit, currentHour, f)

countActive(devs) ==
    Len(SelectSeq(devs, LAMBDA device : device.status = "on" /\ device.is_automated))

\* update without the hysteresis band
update_NoHysteresis(st, powerData, currentHour, f) ==
    LET surplus == powerData.P_PV - powerData.P_Load
        st0 == [st EXCEPT !.lastSurplus = surplus,
                          !.automationStats.last_surplus = surplus]
        st1 == IF surplus > 0
               THEN handleSolarSurplus(st0, surplus, currentHour, f)
               ELSE handleEnergyDeficit(st0, Abs(surplus), currentHour, f)
    IN  [st1 EXCEPT !.automationStats.active_devices = countActive(st1.devices)]

update(st, powerData, currentHour, f) ==
    LET surplus == powerData.P_PV - powerData.P_Load
        st0 == [st EXCEPT !.lastSurplus = surplus,
                          !.automationStats.last_surplus = surplus]
    IN  IF Abs(surplus) < st0.minSurplusThreshold THEN st0
        ELSE LET st1 == IF surplus > 0
                        THEN handleSolarSurplus(st0, surplus, currentHour, f)
                        ELSE handleEnergyDeficit(st0, Abs(surplus), currentHour, f)
             IN  [st1 EXCEPT !.automationStats.active_devices = countActive(st1.devices)]

\* controlDevice logging an event only for manual control
controlDevice_LogsOnlyManual(st, control, f) ==
    LET i == IndexOf(st.devices, control.device_id) IN
    IF i = 0 THEN [st |-> st, ret |-> "false"]
    ELSE
      LET newStatus == IF control.action = "turn_on" THEN "on" ELSE "off"
          st1 == [st EXCEPT !.devices[i].status = newStatus,
                            !.devices[i].manual_override = control.manual]
          device == st1.devices[i]
          event == [device_id |-> control.device_id,
                    event_type |-> IF control.action = "turn_on"
                                   THEN "turn_on" ELSE "turn_off",
                    trigger_reason |-> [text |-> "Manual control", watts |-> 0],
                    surplus_watts |-> st1.lastSurplus,
                    success |-> TRUE]
      IN  IF control.device_id \in f.save THEN [st |-> st1, ret |-> "throw"]
          ELSE LET st2 == insertDevice(st1, device) IN
               IF ~control.manual THEN [st |-> st2, ret |-> "true"]
               ELSE IF control.device_id \in f.event THEN [st |-> st2, ret |-> "throw"]
               ELSE [st |-> insertAutomationEvent(st2, event), ret |-> "true"]

\* controlDevice that puts the device under manual override whatever control.manual
controlDevice_AlwaysOverride(st, control, f) ==
    LET i == IndexOf(st.devices, control.device_id) IN
    IF i = 0 THEN [st |-> st, ret |-> "false"]
    ELSE
      LET newStatus == IF control.action = "turn_on" THEN "on" ELSE "off"
          st1 == [st EXCEPT !.devices[i].status = newStatus,
                            !.devices[i].manual_override = TRUE]
          device == st1.devices[i]
          event == [device_id |-> control.device_id,
                    event_type |-> IF control.action = "turn_on"
                                   THEN "turn_on" ELSE "turn_off",
                    trigger_reason |->
                        [text |-> IF control.manual THEN "Manual control"
                                  ELSE "Automated control",
                         watts |-> 0],
                    surplus_watts |-> st1.lastSurplus,
                    success |-> TRUE]
      IN  IF control.device_id \in f.save THEN [st |-> st1, ret |-> "throw"]
          ELSE LET st2 == insertDevice(st1, device) IN
               IF control.device_id \in f.event THEN [st |-> st2, ret |-> "throw"]
               ELSE [st |-> insertAutomationEvent(st2, event), ret |-> "true"]

controlDevice(st, control, f) ==
    LET i == IndexOf(st.devices, control.device_id) IN
    IF i = 0 THEN [st |-> st, ret |-> "false"]
    ELSE
      LET newStatus == IF control.action = "turn_on" THEN "on" ELSE "off"
          st1 == [st EXCEPT !.devices[i].status = newStatus,
                            !.devices[i].manual_override = control.manual]
          device == st1.devices[i]
          event == [device_id |-> control.device_id,
                    event_type |-> IF control.action = "turn_on"
                                   THEN "turn_on" ELSE "turn_off",
                    trigger_reason |->
                        [text |-> IF control.manual THEN "Manual control"
                                  ELSE "Automated control",
                         watts |-> 0],
                    surplus_watts |-> st1.lastSurplus,
                    success |-> TRUE]
      IN  IF control.device_id \in f.save THEN [st |-> st1, ret |-> "throw"]
          ELSE LET st2 == insertDevice(st1, device) IN
               IF control.device_id \in f.event THEN [st |-> st2, ret |-> "throw"]
               ELSE [st |-> insertAutomationEvent(st2, event), ret |-> "true"]

\* the loop of clearManualOverrides saving the devices without resetting the flag
RECURSIVE ClearWalk_NoReset(_, _, _)
ClearWalk_NoReset(st, i, f) ==
    IF i > Len(st.devices) THEN [st |-> st, ret |-> "void"]
    ELSE IF st.devices[i].manual_override
    THEN IF st.devices[i].id \in f.save THEN [st |-> st, ret |-> "throw"]
         ELSE ClearWalk_NoReset(insertDevice(st, st.devices[i]), i + 1, f)
    ELSE ClearWalk_NoReset(st, i + 1, f)

\* the loop of clearManualOverrides from Map position i on
RECURSIVE ClearWalk(_, _, _)
ClearWalk(st, i, f) ==
    IF i > Len(st.devices) THEN [st |-> st, ret |-> "void"]
    ELSE IF st.devices[i].manual_override
    THEN LET st1 == [st EXCEPT !.devices[i].manual_override = FALSE] IN
         IF st1.devices[i].id \in f.save THEN [st |-> st1, ret |-> "throw"]
         ELSE ClearWalk(insertDevice(st1, st1.devices[i]), i + 1, f)
    ELSE ClearWalk(st, i + 1, f)

clearManualOverrides(st, f) == ClearWalk(st, 1, f)

Slice(s, n) == SubSeq(s, 1, IF Len(s) < n THEN Len(s) ELSE n)

RECURSIVE Collect(_, _, _)
\* the recommendations pushed for the devices of s that satisfy Keep
Collect(s, action, surplus) ==
    IF s = <<>> THEN <<>>
    ELSE LET device == s[1]
             keep == IF action = "activate" THEN device.power_consumption <= surplus
                     ELSE device.priority # "essential"
         IN  (IF keep THEN << [device_id |-> device.id, action |-> action] >> ELSE <<>>)
             \o Collect(Tail(s), action, surplus)

getAutomationRecommendations(st, powerData) ==
    LET surplus == powerData.P_PV - powerData.P_Load
    IN  (IF surplus > 500
         THEN Collect(Slice(getAvailableDevicesForActivation(st.devices), 3),
                      "activate", surplus)
         ELSE <<>>)
        \o
        (IF surplus < -200
         THEN Collect(Slice(getActiveAutomatedDevices(st.devices), 2),
                      "deactivate", surplus)
         ELSE <<>>)

\* getAutomationRecommendations sorting the registry itself
getAutomationRecommendationsEffect_SortsRegistry(st, powerData) ==
    [st EXCEPT !.devices = StableSort(st.devices, "activation")]

\* the state that getAutomationRecommendations leaves: the method assigns no
\* field and calls no database method; Array.from(...).filter(...) copies the
\* values of the registry, so the sort of the getters orders the copy
getAutomationRecommendationsEffect(st, powerData) == st

\* setConfiguration that also puts the devices of disabled categories under override
setConfiguration_FreezesDisabled(st, config) ==
    LET st1 == IF config.hasThreshold
               THEN [st EXCEPT !.minSurplusThreshold = config.minSurplusThreshold]
               ELSE st
    IN  IF config.hasCategories
        THEN [st1 EXCEPT !.devices =
                 [i \in 1..Len(st1.devices) |->
                     [st1.devices[i] EXCEPT
                         !.is_automated =
                             st1.devices[i].category \in config.enabledCategories,
                         !.manual_override =
                             @ \/ st1.devices[i].category \notin config.enabledCategories]]]
        ELSE st1

\* setConfiguration that also releases the override of the devices it enables
setConfiguration_ReleasesEnabled(st, config) ==
    LET st1 == IF config.hasThreshold
               THEN [st EXCEPT !.minSurplusThreshold = config.minSurplusThreshold]
               ELSE st
    IN  IF config.hasCategories
        THEN [st1 EXCEPT !.devices =
                 [i \in 1..Len(st1.devices) |->
                     [st1.devices[i] EXCEPT
                         !.is_automated =
                             st1.devices[i].category \in config.enabledCategories,
                         !.manual_override =
                             @ /\ st1.devices[i].category \notin config.enabledCategories]]]
        ELSE st1

setConfiguration(st, config) ==
    LET st1 == IF config.hasThreshold
               THEN [st EXCEPT !.minSurplusThreshold = config.minSurplusThreshold]
               ELSE st
    IN  IF config.hasCategories
        THEN [st1 EXCEPT !.devices =
                 [i \in 1..Len(st1.devices) |->
                     [st1.devices[i] EXCEPT !.is_automated =
                         st1.devices[i].category \in config.enabledCategories]]]
        ELSE st1

----------------------------------------------------------------------------
(* update() as the sequence of its synchronous runs.  update, handleSolarSurplus,
   handleEnergyDeficit, activateDevice and deactivateDevice are async functions:
   a call runs until it awaits a database write (insertDevice,
   insertAutomationEvent), returns control to the event loop, and goes on when
   the write has settled.  The frame of a call holds its local variables.  *)

TickIds == 1..MaxTicks

\* the frame of an update() call before it runs
IdleTick ==
    [pc |-> "idle", read |-> FALSE, mode |-> "", list |-> <<>>, i |-> 0,
     remaining |-> 0, surplus |-> 0, hour |-> 0, row |-> NoRow, eventSurplus |-> 0]

\* the test of the loop body: canActivateDevice under a surplus,
\* shouldDeactivateDevice under a deficit
TickWants(fr, device) ==
    IF fr.mode = "surplus"
    THEN canActivateDevice(device, fr.remaining, fr.hour)
    ELSE shouldDeactivateDevice(device, fr.remaining, fr.hour)

\* the end of update(): the count of active devices
TickFinish(st, fr) ==
    [st |-> [st EXCEPT !.automationStats.active_devices = countActive(st.devices)],
     fr |-> [fr EXCEPT !.pc = "done"]]

RECURSIVE TickAdvance(_, _)
RECURSIVE TickAfterToggle(_, _)

\* the loop from candidate fr.i on, up to the next awaited insertDevice (pc
\* "save", the status already written in the Map) or to the end of update()
TickAdvance(st, fr) ==
    IF fr.i > Len(fr.list) THEN TickFinish(st, fr)
    ELSE
      LET device == fr.list[fr.i] IN
      IF ~TickWants(fr, device) THEN TickAdvance(st, [fr EXCEPT !.i = @ + 1])
      ELSE
        LET k == IndexOf(st.devices, device.id)
            target == IF fr.mode = "surplus" THEN "on" ELSE "off"
        IN  IF k = 0 THEN TickAfterToggle(st, fr)
            ELSE IF st.devices[k].status = target \/ st.devices[k].manual_override
            THEN TickAfterToggle(st, fr)
            ELSE LET st1 == [st EXCEPT !.devices[k].status = target]
                 IN  [st |-> st1,
                      fr |-> [fr EXCEPT !.pc = "save", !.row = st1.devices[k]]]

\* the loop after activateDevice / deactivateDevice has returned for
\* candidate fr.i: the decrement and the test that ends the loop
TickAfterToggle(st, fr) ==
    LET remaining == fr.remaining - fr.list[fr.i].power_consumption IN
    IF remaining < st.minSurplusThreshold
    THEN TickFinish(st, [fr EXCEPT !.remaining = remaining])
    ELSE TickAdvance(st, [fr EXCEPT !.remaining = remaining, !.i = @ + 1])

\* the call of update(powerData) up to its first awaited write
startTick(st, powerData, currentHour) ==
    LET surplus == powerData.P_PV - powerData.P_Load
        st0 == [st EXCEPT !.lastSurplus = surplus,
                          !.automationStats.last_surplus = surplus]
    IN  IF Abs(surplus) < st0.minSurplusThreshold
        THEN [st |-> st0, fr |-> [IdleTick EXCEPT !.pc = "done", !.surplus = surplus]]
        ELSE TickAdvance(st0,
                 [pc |-> "run", read |-> TRUE,
                  mode |-> IF surplus > 0 THEN "surplus" ELSE "deficit",
                  list |-> IF surplus > 0
                           THEN getAvailableDevicesForActivation(st0.devices)
                           ELSE getActiveAutomatedDevices(st0.devices),
                  i |-> 1, remaining |-> Abs(surplus), surplus |-> surplus,
                  hour |-> currentHour, row |-> NoRow, eventSurplus |-> 0])

\* the awaited insertDevice has settled: rejected, the catch block returns
\* false; resolved, the event is built and insertAutomationEvent is awaited
saveSettled(st, fr, rejected) ==
    IF rejected THEN TickAfterToggle(st, fr)
    ELSE [st |-> insertDevice(st, fr.row),
          fr |-> [fr EXCEPT !.pc = "event", !.eventSurplus = st.lastSurplus]]

\* the awaited insertAutomationEvent has settled: rejected, the catch block
\* returns false; resolved, the statistics are updated
eventSettled(st, fr, rejected) ==
    IF rejected THEN TickAfterToggle(st, fr)
    ELSE
      LET event == [device_id |-> fr.row.id,
                    event_type |-> IF fr.mode = "surplus" THEN "turn_on" ELSE "turn_off",
                    trigger_reason |->
                        [text |-> IF fr.mode = "surplus" THEN "Solar surplus"
                                  ELSE "Energy deficit",
                         watts |-> Abs(fr.surplus)],
                    surplus_watts |-> fr.eventSurplus,
                    success |-> TRUE]
          st1 == insertAutomationEvent(st, event)
          st2 == [st1 EXCEPT
                    !.automationStats.automation_events = @ + 1,
                    !.automationStats.energy_saved_today =
                        IF fr.mode = "surplus" THEN @ + fr.row.power_consumption ELSE @]
      IN  TickAfterToggle(st2, fr)

----------------------------------------------------------------------------
(* SmartFroniusClient (smart-fronius.ts).  The record of the client holds
   hasReal (this.realClient is defined), currentMode, status (mode,
   connected, errorCount), the availability of its two sources (realUp: the
   inverter answers; enhancedUp: the enhanced mock answers), and what the
   last call was: lastOp, the modes it tried, the source of the data it
   returned or "throw", and the parity of the number of calls.  *)

FroniusMode == {"real", "enhanced_mock", "basic_mock"}

\* the constructor: REAL when the real client is configured
SmartFroniusClient(hasReal, realUp, enhancedUp) ==
    LET mode == IF hasReal THEN "real" ELSE "enhanced_mock" IN
    [hasReal |-> hasReal, currentMode |-> mode,
     status |-> [mode |-> mode, connected |-> FALSE, errorCount |-> 0],
     realUp |-> realUp, enhancedUp |-> enhancedUp,
     lastOp |-> "constructor", tried |-> <<>>, lastRet |-> "void", parity |-> 0]

\* a call op of the client has returned ret
Returned(c, op, ret) ==
    [c EXCEPT !.lastOp = op, !.lastRet = ret, !.parity = 1 - @]

\* getFallbackSequence without the basic mock
getFallbackSequence_NoBasicMock(c) ==
    <<c.currentMode>>
    \o (IF c.currentMode # "real" /\ c.hasReal THEN <<"real">> ELSE <<>>)
    \o (IF c.currentMode # "enhanced_mock" THEN <<"enhanced_mock">> ELSE <<>>)

getFallbackSequence(c) ==
    <<c.currentMode>>
    \o (IF c.currentMode # "real" /\ c.hasReal THEN <<"real">> ELSE <<>>)
    \o (IF c.currentMode # "enhanced_mock" THEN <<"enhanced_mock">> ELSE <<>>)
    \o (IF c.currentMode # "basic_mock" THEN <<"basic_mock">> ELSE <<>>)

\* getCurrentDataFromMode returns data (it throws otherwise); getBasicMockData
\* computes its data and cannot fail
getCurrentDataFromMode(c, mode) ==
    CASE mode = "real" -> c.hasReal /\ c.realUp
      [] mode = "enhanced_mock" -> c.enhancedUp
      [] mode = "basic_mock" -> TRUE

updateStatus(c, mode, connected) ==
    [c EXCEPT !.status = [mode |-> mode, connected |-> connected,
                          errorCount |-> IF connected THEN 0
                                         ELSE c.status.errorCount + 1]]

\* the loop of getCurrentData from position i of the sequence on, and the
\* statements after the loop
RECURSIVE FallbackWalk(_, _, _)
FallbackWalk(c, sequence, i) ==
    IF i > Len(sequence)
    THEN [c |-> [c EXCEPT !.currentMode = "basic_mock"], ret |-> "basic_mock"]
    ELSE
      LET mode == sequence[i]
          c0 == [c EXCEPT !.tried = Append(@, mode)]
      IN  IF getCurrentDataFromMode(c0, mode)
          THEN [c |-> updateStatus(c0, mode, TRUE), ret |-> mode]
          ELSE LET c1 == updateStatus(c0, mode, FALSE)
                   c2 == IF mode = "real"
                         THEN [c1 EXCEPT !.currentMode = "enhanced_mock"]
                         ELSE c1
               IN  FallbackWalk(c2, sequence, i + 1)

getCurrentData(c) ==
    LET r == FallbackWalk([c EXCEPT !.tried = <<>>], getFallbackSequence(c), 1)
    IN  Returned(r.c, "getCurrentData", r.ret)

\* testConnection: the state it leaves and the boolean it returns
testConnection(c) ==
    IF ~c.hasReal THEN [c |-> c, ret |-> FALSE]
    ELSE IF c.realUp /\ c.currentMode # "real"
         THEN [c |-> [c EXCEPT !.currentMode = "real"], ret |-> TRUE]
         ELSE [c |-> c, ret |-> c.realUp]

\* the callback of setInterval in startConnectionMonitoring, when its test
\* currentMode !== REAL && realClient holds
connectionMonitor(c) ==
    LET r == testConnection(c)
        c1 == IF r.ret THEN [r.c EXCEPT !.currentMode = "real"] ELSE r.c
    IN  Returned(c1, "monitor", IF r.ret THEN "true" ELSE "false")

setMode(c, mode) ==
    Returned([c EXCEPT !.currentMode = mode, !.status.mode = mode], "setMode", "void")

refreshStatus(c) ==
    IF c.hasReal
    THEN LET r == testConnection(c)
         IN  Returned(updateStatus(r.c, r.c.currentMode, r.ret), "refreshStatus", "void")
    ELSE Returned(c, "refreshStatus", "void")

----------------------------------------------------------------------------
(* State machine *)

\* the state when the constructor's seeding loop has completed
Constructed ==
    [st |-> [devices |-> defaultDevices,
             dbDevices |-> [id \in DeviceIds |->
                               defaultDevices[IndexOf(defaultDevices, id)]],
             dbEvents |-> <<>>,
             automationStats |-> [total_automated_energy |-> 0, automation_events |-> 0,
                                  last_surplus |-> 0, active_devices |-> 0,
                                  energy_saved_today |-> 0],
             lastSurplus |-> 0,
             minSurplusThreshold |-> 100],
     lastCall |-> [op |-> "constructor", ret |-> "void"],
     lastArg |-> NoArg]

\* Calls that a household makes before the calls the model explores: the model
\* starts from the state left by any subset of them, made in this order.
SetupCalls == 1..7

\* a further setup call, made last: setConfiguration({minSurplusThreshold: 1500})
ThresholdCall == 8

SetupCall(k, s) ==
    LET st == s.st
        api == [text |-> "api request", watts |-> 0]
    IN  CASE k = 1 ->
               [st |-> setConfiguration(st,
                          [hasThreshold |-> FALSE, minSurplusThreshold |-> 0,
                           hasCategories |-> TRUE,
                           enabledCategories |-> DeviceCategory \ {"pool"}]),
                lastCall |-> [op |-> "setConfiguration", ret |-> "void"],
                lastArg |-> NoArg]
          [] k = 2 ->
               LET control == [device_id |-> "air-conditioning",
                               action |-> "turn_on", manual |-> FALSE]
                   r == controlDevice(st, control, NoFault)
               IN  [st |-> r.st, lastCall |-> [op |-> "controlDevice", ret |-> r.ret],
                    lastArg |-> control]
          [] k = 3 ->
               LET r == activateDevice(st, "pool-pump", api, NoFault)
               IN  [st |-> r.st, lastCall |-> [op |-> "activateDevice", ret |-> r.ret],
                    lastArg |-> OnDevice("pool-pump")]
          [] k = 4 ->
               LET r == activateDevice(st, "water-heater", api, NoFault)
               IN  [st |-> r.st, lastCall |-> [op |-> "activateDevice", ret |-> r.ret],
                    lastArg |-> OnDevice("water-heater")]
          [] k = 5 ->
               LET r == activateDevice(st, "dishwasher", api, NoFault)
               IN  [st |-> r.st, lastCall |-> [op |-> "activateDevice", ret |-> r.ret],
                    lastArg |-> OnDevice("dishwasher")]
          [] k = 6 ->
               LET control == [device_id |-> "ev-charger",
                               action |-> "turn_on", manual |-> TRUE]
                   r == controlDevice(st, control, NoFault)
               IN  [st |-> r.st, lastCall |-> [op |-> "controlDevice", ret |-> r.ret],
                    lastArg |-> control]
          [] k = 7 ->
               LET r == clearManualOverrides(st, NoFault)
               IN  [st |-> r.st, lastCall |-> [op |-> "clearManualOverrides", ret |-> r.ret],
                    lastArg |-> NoArg]
          [] k = ThresholdCall ->
               [st |-> setConfiguration(st,
                          [hasThreshold |-> TRUE, minSurplusThreshold |-> 1500,
                           hasCategories |-> FALSE, enabledCategories |-> {}]),
                lastCall |-> [op |-> "setConfiguration", ret |-> "void"],
                lastArg |-> NoArg]

RECURSIVE AfterSetup(_, _, _)
AfterSetup(chosen, k, s) ==
    IF k > ThresholdCall THEN s
    ELSE AfterSetup(chosen, k + 1, IF k \in chosen THEN SetupCall(k, s) ELSE s)

\* the state after the setup calls chosen, with a database that rejects the
\* writes of at most `faults` of the calls to come
StartManager(chosen, faults) ==
    LET s == AfterSetup(chosen, 1, Constructed) IN
    /\ devices = s.st.devices
    /\ dbDevices = s.st.dbDevices
    /\ dbEvents = s.st.dbEvents
    /\ eventIds = [k \in 1..Len(s.st.dbEvents) |-> <<k, s.st.dbEvents[k].device_id>>]
    /\ now = Len(s.st.dbEvents)
    /\ automationStats = s.st.automationStats
    /\ lastSurplus = s.st.lastSurplus
    /\ minSurplusThreshold = s.st.minSurplusThreshold
    /\ lastCall = s.lastCall
    /\ lastArg = s.lastArg
    /\ ticks = <<>>
    /\ seedNext = Len(defaultDevices) + 1
    /\ opCount = 0
    /\ faultsLeft = faults

\* the same, beside a SmartFroniusClient that nothing calls
Start(chosen, faults) ==
    /\ StartManager(chosen, faults)
    /\ fronius = SmartFroniusClient(FALSE, FALSE, TRUE)

\* the database accepts every write; clearManualOverrides is a setup call
\* only after the manual controlDevice
Init ==
    \E chosen \in { c \in SUBSET SetupCalls : 7 \in c => 6 \in c } :
        Start(chosen, 0)

\* the database accepts every write; at most one setup call was made, and
\* then the threshold may have been configured
InitConfigured ==
    \E chosen \in { c \in SUBSET (SetupCalls \cup {ThresholdCall}) :
                        Cardinality(c \ {ThresholdCall}) <= 1 } :
        Start(chosen, 0)

\* the constructor has returned: the Map is empty and initializeDefaultDevices,
\* which the constructor does not await, is suspended at its first insertDevice
InitBootstrap ==
    /\ devices = <<>>
    /\ dbDevices = [id \in DeviceIds |-> NoRow]
    /\ dbEvents = Constructed.st.dbEvents
    /\ eventIds = <<>>
    /\ now = 0
    /\ automationStats = Constructed.st.automationStats
    /\ lastSurplus = Constructed.st.lastSurplus
    /\ minSurplusThreshold = Constructed.st.minSurplusThreshold
    /\ lastCall = Constructed.lastCall
    /\ lastArg = Constructed.lastArg
    /\ ticks = <<>>
    /\ fronius = SmartFroniusClient(FALSE, FALSE, TRUE)
    /\ seedNext = 1
    /\ opCount = 0
    /\ faultsLeft = 0

\* the database rejects the events whose id is in the table; at most one
\* setup call was made, within the current millisecond
InitClock ==
    \E chosen \in { c \in SUBSET SetupCalls : Cardinality(c) <= 1 } :
        Start(chosen, 0)

\* a SmartFroniusClient just constructed, with or without a real client,
\* whatever the availability of its sources, beside a seeded AutomationManager
InitInverter ==
    /\ StartManager({}, 0)
    /\ \E hasReal \in BOOLEAN, realUp \in BOOLEAN, enhancedUp \in BOOLEAN :
           fronius = SmartFroniusClient(hasReal, realUp, enhancedUp)

\* the database may reject writes; at most one setup call was made
InitFaults ==
    \E chosen \in { c \in SUBSET SetupCalls : Cardinality(c) <= 1 } :
        Start(chosen, MaxFaults)

\* the fields and the tables take the values of the state record st
BecomesState(st) ==
    /\ devices' = st.devices
    /\ dbDevices' = st.dbDevices
    /\ dbEvents' = st.dbEvents
    /\ automationStats' = st.automationStats
    /\ lastSurplus' = st.lastSurplus
    /\ minSurplusThreshold' = st.minSurplusThreshold

\* the variables take the values of the state record st; the events the
\* step appends are built at a millisecond later than every earlier event
Becomes(st) ==
    /\ BecomesState(st)
    /\ IF Len(st.dbEvents) > Len(dbEvents)
       THEN /\ now' = Len(dbEvents) + 1
            /\ eventIds' = eventIds \o
                   [k \in 1..(Len(st.dbEvents) - Len(dbEvents)) |->
                       <<Len(dbEvents) + 1, st.dbEvents[Len(dbEvents) + k].device_id>>]
       ELSE UNCHANGED <<eventIds, now>>

Called(op, ret) ==
    /\ UNCHANGED <<ticks, fronius>>
    /\ opCount < MaxOps
    /\ opCount' = opCount + 1
    /\ lastCall' = [op |-> op, ret |-> ret]

\* a call under the fault f: f is NoFault, or one of its writes is rejected
\* (the outcome differs from the outcome without a fault)
Faulted(f, outcome, clean) ==
    IF f = NoFault THEN UNCHANGED faultsLeft
    ELSE /\ faultsLeft > 0
         /\ outcome # clean
         /\ faultsLeft' = faultsLeft - 1

\* the faults the next call can meet on the devices ids: none when faultsLeft
\* is 0 (and none to choose when no call is left)
FaultChoices(ids) ==
    IF opCount < MaxOps /\ faultsLeft > 0 THEN FaultsOn(ids) ELSE {NoFault}

\* one iteration of the loop of initializeDefaultDevices, which the
\* constructor starts and does not await
SeedDevice(rejected) ==
    /\ seedNext \in 1..Len(defaultDevices)
    /\ IF rejected
       THEN /\ seedNext' = 0
            /\ UNCHANGED <<devices, dbDevices>>
       ELSE /\ seedNext' = seedNext + 1
            /\ dbDevices' = [dbDevices EXCEPT ![defaultDevices[seedNext].id] =
                                                  defaultDevices[seedNext]]
            /\ devices' = Append(devices, defaultDevices[seedNext])
    /\ UNCHANGED <<lastSurplus, minSurplusThreshold, automationStats, dbEvents,
                   eventIds, now, lastCall, lastArg, ticks, fronius, opCount,
                   faultsLeft>>

Update(powerData, currentHour, f) ==
    LET st == update(CurrentState, powerData, currentHour, f) IN
    /\ Called("update", "void")
    /\ lastArg' = NoArg
    /\ Faulted(f, st, update(CurrentState, powerData, currentHour, NoFault))
    /\ Becomes(st)
    /\ UNCHANGED seedNext

ActivateDevice(deviceId, reason, f) ==
    LET r == activateDevice(CurrentState, deviceId, reason, f) IN
    /\ Called("activateDevice", r.ret)
    /\ lastArg' = OnDevice(deviceId)
    /\ Faulted(f, r, activateDevice(CurrentState, deviceId, reason, NoFault))
    /\ Becomes(r.st)
    /\ UNCHANGED seedNext

DeactivateDevice(deviceId, reason, f) ==
    LET r == deactivateDevice(CurrentState, deviceId, reason, f) IN
    /\ Called("deactivateDevice", r.ret)
    /\ lastArg' = OnDevice(deviceId)
    /\ Faulted(f, r, deactivateDevice(CurrentState, deviceId, reason, NoFault))
    /\ Becomes(r.st)
    /\ UNCHANGED seedNext

ControlDevice(control, f) ==
    LET r == controlDevice(CurrentState, control, f) IN
    /\ Called("controlDevice", r.ret)
    /\ lastArg' = control
    /\ Faulted(f, r, controlDevice(CurrentState, control, NoFault))
    /\ Becomes(r.st)
    /\ UNCHANGED seedNext

ClearManualOverrides(f) ==
    LET r == clearManualOverrides(CurrentState, f) IN
    /\ Called("clearManualOverrides", r.ret)
    /\ lastArg' = NoArg
    /\ Faulted(f, r, clearManualOverrides(CurrentState, NoFault))
    /\ Becomes(r.st)
    /\ UNCHANGED seedNext

GetAutomationRecommendations(powerData) ==
    /\ Called("getAutomationRecommendations", "value")
    /\ lastArg' = NoArg
    /\ Becomes(getAutomationRecommendationsEffect(CurrentState, powerData))
    /\ UNCHANGED <<seedNext, faultsLeft>>

SetConfiguration(config) ==
    /\ Called("setConfiguration", "void")
    /\ lastArg' = NoArg
    /\ Becomes(setConfiguration(CurrentState, config))
    /\ UNCHANGED <<seedNext, faultsLeft>>

\* ids of the devices whose status differs between two registries
Toggled(before, after) ==
    { before[i].id : i \in { j \in 1..Len(before) : before[j].status # after[j].status } }

Next ==
    \/ \E powerData \in Readings, currentHour \in Hours :
           \E f \in FaultChoices(Toggled(devices,
                       update(CurrentState, powerData, currentHour, NoFault).devices)) :
               Update(powerData, currentHour, f)
    \/ \E deviceId \in DeviceIdInputs, reason \in Reasons :
           \E f \in FaultChoices({deviceId} \cap DeviceIds) :
               ActivateDevice(deviceId, reason, f)
    \/ \E deviceId \in DeviceIdInputs, reason \in Reasons :
           \E f \in FaultChoices({deviceId} \cap DeviceIds) :
               DeactivateDevice(deviceId, reason, f)
    \/ \E control \in Controls :
           \E f \in FaultChoices({control.device_id} \cap DeviceIds) :
               ControlDevice(control, f)
    \/ \E f \in FaultChoices(DeviceIds) : ClearManualOverrides(f)
    \/ \E powerData \in Readings : GetAutomationRecommendations(powerData)
    \/ \E config \in Configs : SetConfiguration(config)

\* update() is called while earlier calls may be suspended at a write
StartTick(powerData, currentHour) ==
    LET r == startTick(CurrentState, powerData, currentHour) IN
    /\ Len(ticks) < MaxTicks
    /\ Becomes(r.st)
    /\ ticks' = Append(ticks, r.fr)
    /\ lastCall' = [op |-> "update",
                    ret |-> IF r.fr.pc = "done" THEN "void" ELSE "pending"]
    /\ lastArg' = NoArg
    /\ UNCHANGED <<seedNext, fronius, opCount, faultsLeft>>

\* the write that tick t awaits settles (rejected or resolved) and the tick
\* runs on to its next awaited write or to its end
SettleWrite(t, rejected) ==
    /\ t \in DOMAIN ticks
    /\ ticks[t].pc \in {"save", "event"}
    /\ IF rejected
       THEN faultsLeft > 0 /\ faultsLeft' = faultsLeft - 1
       ELSE UNCHANGED faultsLeft
    /\ LET r == IF ticks[t].pc = "save"
                THEN saveSettled(CurrentState, ticks[t], rejected)
                ELSE eventSettled(CurrentState, ticks[t], rejected)
       IN  /\ Becomes(r.st)
           /\ ticks' = [ticks EXCEPT ![t] = r.fr]
    /\ UNCHANGED <<seedNext, fronius, opCount, lastCall, lastArg>>

NextTicks ==
    \/ \E powerData \in Readings, currentHour \in Hours :
           StartTick(powerData, currentHour)
    \/ \E t \in TickIds, rejected \in BOOLEAN : SettleWrite(t, rejected)

Spec == Init /\ [][Next]_vars

SpecFaults == InitFaults /\ [][Next]_vars

\* the public calls while the seeding loop may still be running
NextBootstrap ==
    \/ \E rejected \in BOOLEAN : SeedDevice(rejected)
    \/ Next

SpecBootstrap == InitBootstrap /\ [][NextBootstrap]_vars

\* the devices the calls of SpecClock toggle
ToggleIds == {"water-heater", "pool-pump"}

\* a millisecond passes
ClockAdvances ==
    /\ now < Len(dbEvents) + MaxClock
    /\ now' = now + 1
    /\ UNCHANGED <<devices, seedNext, lastSurplus, minSurplusThreshold,
                   automationStats, dbDevices, dbEvents, eventIds, lastCall,
                   lastArg, ticks, fronius, opCount, faultsLeft>>

\* a public call that toggles deviceId within the current millisecond, r its
\* outcome: the event it appends has the id evt-<now>-<deviceId>
ClockedCall(op, arg, deviceId, r) ==
    /\ opCount < MaxToggles
    /\ opCount' = opCount + 1
    /\ lastCall' = [op |-> op, ret |-> r.ret]
    /\ lastArg' = arg
    /\ BecomesState(r.st)
    /\ eventIds' = IF Len(r.st.dbEvents) > Len(dbEvents)
                   THEN Append(eventIds, <<now, deviceId>>)
                   ELSE eventIds
    /\ UNCHANGED <<now, seedNext, ticks, fronius, faultsLeft>>

ClockedActivate(deviceId, reason) ==
    ClockedCall("activateDevice", OnDevice(deviceId), deviceId,
                activateDevice(CurrentState, deviceId, reason,
                               PrimaryKeyFault(eventIds, now, deviceId)))

ClockedDeactivate(deviceId, reason) ==
    ClockedCall("deactivateDevice", OnDevice(deviceId), deviceId,
                deactivateDevice(CurrentState, deviceId, reason,
                                 PrimaryKeyFault(eventIds, now, deviceId)))

ClockedControl(control) ==
    ClockedCall("controlDevice", control, control.device_id,
                controlDevice(CurrentState, control,
                              PrimaryKeyFault(eventIds, now, control.device_id)))

NextClock ==
    \/ ClockAdvances
    \/ \E deviceId \in ToggleIds, reason \in Reasons : ClockedActivate(deviceId, reason)
    \/ \E deviceId \in ToggleIds, reason \in Reasons : ClockedDeactivate(deviceId, reason)
    \/ \E control \in Controls :
           control.device_id \in ToggleIds /\ ClockedControl(control)

\* activateDevice, deactivateDevice and controlDevice calls awaited one after
\* the other, any number of them within one millisecond
SpecClock == InitClock /\ [][NextClock]_vars

\* the variables of the AutomationManager and of its database
managerVars ==
    <<devices, seedNext, lastSurplus, minSurplusThreshold, automationStats,
      dbDevices, dbEvents, eventIds, now, lastCall, lastArg, ticks, opCount,
      faultsLeft>>

GetCurrentData ==
    /\ fronius' = getCurrentData(fronius)
    /\ UNCHANGED managerVars

TestConnection ==
    LET r == testConnection(fronius) IN
    /\ fronius' = Returned(r.c, "testConnection", IF r.ret THEN "true" ELSE "false")
    /\ UNCHANGED managerVars

ConnectionMonitor ==
    /\ fronius.currentMode # "real" /\ fronius.hasReal
    /\ fronius' = connectionMonitor(fronius)
    /\ UNCHANGED managerVars

SetMode(mode) ==
    /\ fronius' = setMode(fronius, mode)
    /\ UNCHANGED managerVars

\* refreshStatus; the error count is let grow up to MaxErrors
RefreshStatus ==
    /\ fronius.status.errorCount < MaxErrors
    /\ fronius' = refreshStatus(fronius)
    /\ UNCHANGED managerVars

\* the inverter stops or starts answering
RealChanges ==
    /\ fronius' = [fronius EXCEPT !.realUp = ~@]
    /\ UNCHANGED managerVars

\* the enhanced mock stops or starts answering
EnhancedChanges ==
    /\ fronius' = [fronius EXCEPT !.enhancedUp = ~@]
    /\ UNCHANGED managerVars

NextInverter ==
    \/ GetCurrentData
    \/ TestConnection
    \/ ConnectionMonitor
    \/ \E mode \in FroniusMode : SetMode(mode)
    \/ RefreshStatus
    \/ RealChanges
    \/ EnhancedChanges

SpecInverter == InitInverter /\ [][NextInverter]_vars

\* the interval of startConnectionMonitoring keeps firing and the power data
\* are polled again and again
SpecInverterFair ==
    SpecInverter /\ WF_vars(ConnectionMonitor) /\ WF_vars(GetCurrentData)

\* the calls after the household has configured the threshold
SpecConfigured == InitConfigured /\ [][Next]_vars

\* update() calls that the caller does not await, over a database that may
\* reject writes
SpecTicks == InitFaults /\ [][NextTicks]_vars

----------------------------------------------------------------------------
(* Vocabulary of the properties *)

\* this step is a call of the public operation op
IsCall(op) == opCount' = opCount + 1 /\ lastCall'.op = op

Device(devs, id) == devs[IndexOf(devs, id)]

CandidateIds(devs) ==
    { devs[i].id : i \in { j \in 1..Len(devs) : IsActivationCandidate(devs[j]) } }

\* the reading of Readings with this surplus
ReadingOf(surplus) == CHOOSE r \in Readings : r.P_PV - r.P_Load = surplus

\* this step leaves the registry that a tick at currentHour leaves
TickAt(currentHour) ==
    /\ IsCall("update")
    /\ devices' = update(CurrentState, ReadingOf(lastSurplus'), currentHour,
                         NoFault).devices

\* C1: a reading inside the hysteresis band (abs(P_PV - P_Load) <
\* minSurplusThreshold) changes no device field and appends no event, from
\* every state, so repeating it leaves the devices as they are.
C1_Hysteresis ==
    [][ (IsCall("update") /\ Abs(lastSurplus') < minSurplusThreshold)
        => /\ devices' = devices
           /\ dbEvents' = dbEvents
           /\ automationStats'.automation_events = automationStats.automation_events
      ]_vars

\* an in-band deficit reading was processed while the low-priority pool pump,
\* which the deficit algorithm always sheds, is on under automation
C1_Witness ==
    /\ lastCall.op = "update" /\ opCount > 0
    /\ lastSurplus = -50
    /\ IsDeactivationCandidate(Device(devices, "pool-pump"))

\* C2: a tick with negative surplus never turns an essential device from on
\* to off, whatever the deficit and the hour.
C2_EssentialImmunity ==
    [][ (IsCall("update") /\ lastSurplus' < 0)
        => \A i \in 1..Len(devices) :
              (devices[i].priority = "essential" /\ devices[i].status = "on")
              => devices'[i].status = "on"
      ]_vars

\* a 3000 W deficit was processed with the essential air conditioning as the
\* only device that is on, automated and not overridden
C2_Witness ==
    /\ lastCall.op = "update" /\ opCount > 0
    /\ lastSurplus = -3000
    /\ IsDeactivationCandidate(Device(devices, "air-conditioning"))
    /\ \A i \in 1..Len(devices) :
          devices[i].id # "air-conditioning" => devices[i].status # "on"

\* C3: update() never changes the status of a device that is overridden or
\* not automated when the tick starts.
C3_OverrideImmunity ==
    [][ IsCall("update")
        => \A i \in 1..Len(devices) :
              (devices[i].manual_override \/ ~devices[i].is_automated)
              => devices'[i].status = devices[i].status
      ]_vars

\* a 3000 W deficit was processed while the overridden EV charger and the
\* pool pump, which is not automated, are on
C3_Witness ==
    /\ lastCall.op = "update" /\ opCount > 0
    /\ lastSurplus = -3000
    /\ Device(devices, "ev-charger").status = "on"
    /\ Device(devices, "ev-charger").manual_override
    /\ Device(devices, "pool-pump").status = "on"
    /\ ~Device(devices, "pool-pump").is_automated

RECURSIVE ActivatedWatts(_, _, _)
\* total draw of the devices from position i on that are off in before and on in after
ActivatedWatts(before, after, i) ==
    IF i > Len(before) THEN 0
    ELSE (IF before[i].status = "off" /\ after[i].status = "on"
          THEN before[i].power_consumption ELSE 0)
         + ActivatedWatts(before, after, i + 1)

\* C4: in a tick with positive surplus S the devices turned from off to on
\* draw at most S in total.
C4_GreedyBound ==
    [][ (IsCall("update") /\ lastSurplus' > 0)
        => ActivatedWatts(devices, devices', 1) <= lastSurplus'
      ]_vars

\* a tick with surplus 3300 W activated two devices
C4_Witness ==
    /\ lastCall.op = "update" /\ opCount > 0
    /\ lastSurplus = 3300
    /\ Len(dbEvents) >= 2
    /\ LET e1 == dbEvents[Len(dbEvents) - 1]
           e2 == dbEvents[Len(dbEvents)]
       IN  /\ e1.trigger_reason = [text |-> "Solar surplus", watts |-> 3300]
           /\ e2.trigger_reason = [text |-> "Solar surplus", watts |-> 3300]
           /\ e1.device_id # e2.device_id
           /\ e1.event_type = "turn_on" /\ e2.event_type = "turn_on"

\* the order of the priorities: essential > high > medium > low
Rank(priority) ==
    CASE priority = "essential" -> 4
      [] priority = "high" -> 3
      [] priority = "medium" -> 2
      [] priority = "low" -> 1

\* a ranks before b: higher priority, or the same priority and a lower draw
Outranks(a, b) ==
    \/ Rank(a.priority) > Rank(b.priority)
    \/ Rank(a.priority) = Rank(b.priority) /\ a.power_consumption < b.power_consumption

\* the time window of the device's category holds at this hour
TimeEligible(device, hour) ==
    CASE device.category = "appliance" -> hour \in 10..16
      [] device.category = "pool" -> hour \in 8..18
      [] OTHER -> TRUE

\* the device is a candidate (off, automated, not overridden) that is
\* time-eligible at this hour and draws no more than the surplus
EligibleFor(device, hour, surplus) ==
    /\ device.status = "off" /\ device.is_automated /\ ~device.manual_override
    /\ TimeEligible(device, hour)
    /\ device.power_consumption <= surplus

\* device i is the higher-ranked one of a pair of candidates that are both
\* time-eligible at this hour and both draw no more than the surplus
HigherOfPair(devs, i, hour, surplus) ==
    /\ EligibleFor(devs[i], hour, surplus)
    /\ \E j \in 1..Len(devs) :
          EligibleFor(devs[j], hour, surplus) /\ Outranks(devs[i], devs[j])

\* no candidate that is time-eligible and draws no more than the surplus
\* ranks before device i
TopRanked(devs, i, hour, surplus) ==
    \A k \in 1..Len(devs) :
        EligibleFor(devs[k], hour, surplus) => ~Outranks(devs[k], devs[i])

\* C5 as stated: in a surplus tick, of two candidates that are time-eligible
\* and each draw no more than the input surplus, the one with the higher
\* priority (on equal priority the lower draw) is activated.
C5_Original ==
    [][ (IsCall("update") /\ lastSurplus' > 0 /\ lastSurplus' >= minSurplusThreshold)
        => \A i \in 1..Len(devices) :
              \/ devices'[i].status = "on"
              \/ devices[i].status # "off"
              \/ devices[i].power_consumption > lastSurplus'
              \/ \A h \in Hours :
                    \/ ~HigherOfPair(devices, i, h, lastSurplus')
                    \/ ~TickAt(h)
      ]_vars

\* C5 (amended): in a surplus tick, of two candidates that are time-eligible
\* and each draw no more than the input surplus, the one with the higher
\* priority (on equal priority the lower draw) is activated, provided no
\* other such candidate ranks before it.
C5_TopRanked ==
    [][ (IsCall("update") /\ lastSurplus' > 0 /\ lastSurplus' >= minSurplusThreshold)
        => \A i \in 1..Len(devices) :
              \/ devices'[i].status = "on"
              \/ devices[i].status # "off"
              \/ devices[i].power_consumption > lastSurplus'
              \/ \A h \in Hours :
                    \/ ~HigherOfPair(devices, i, h, lastSurplus')
                    \/ ~TopRanked(devices, i, h, lastSurplus')
                    \/ ~TickAt(h)
      ]_vars

\* a tick with surplus 2500 W activated the high-priority water heater and
\* left the medium-priority washing machine, still a candidate, off
C5_Witness ==
    /\ lastCall.op = "update" /\ opCount > 0
    /\ lastSurplus = 2500
    /\ dbEvents # <<>>
    /\ dbEvents[Len(dbEvents)] =
           [device_id |-> "water-heater", event_type |-> "turn_on",
            trigger_reason |-> [text |-> "Solar surplus", watts |-> 2500],
            surplus_watts |-> 2500, success |-> TRUE]
    /\ Device(devices, "washing-machine").status = "off"
    /\ Device(devices, "washing-machine").is_automated
    /\ ~Device(devices, "washing-machine").manual_override

\* C6: with exactly the washing machine, the dishwasher and the EV charger as
\* candidates, a reading with surplus 2500 W at hour 12 (outside the
\* hysteresis band) turns the washing machine on and leaves the dishwasher
\* and the EV charger off.
C6_Scenario1 ==
    [][ ( /\ CandidateIds(devices) = {"washing-machine", "dishwasher", "ev-charger"}
          /\ minSurplusThreshold <= 2500
          /\ lastSurplus' = 2500
          /\ TickAt(12) )
        => /\ Device(devices', "washing-machine").status = "on"
           /\ Device(devices', "dishwasher").status = "off"
           /\ Device(devices', "ev-charger").status = "off"
      ]_vars

\* the tick of scenario 1 has run: the washing machine was turned on for a
\* surplus of 2500 W, the dishwasher and the EV charger are still candidates,
\* the water heater and the pool pump were on already
C6_Witness ==
    /\ lastCall.op = "update" /\ opCount > 0
    /\ lastSurplus = 2500
    /\ dbEvents # <<>>
    /\ dbEvents[Len(dbEvents)] =
           [device_id |-> "washing-machine", event_type |-> "turn_on",
            trigger_reason |-> [text |-> "Solar surplus", watts |-> 2500],
            surplus_watts |-> 2500, success |-> TRUE]
    /\ Device(devices, "washing-machine").status = "on"
    /\ CandidateIds(devices) = {"dishwasher", "ev-charger"}
    /\ Device(devices, "water-heater").status = "on"
    /\ Device(devices, "pool-pump").status = "on"

\* the latest event logged for the device, NoEvent when there is none
NoEvent == [device_id |-> "", event_type |-> "", trigger_reason |-> [text |-> "", watts |-> 0],
            surplus_watts |-> 0, success |-> FALSE]

LatestEvent(events, id) ==
    LET own == SelectSeq(events, LAMBDA e : e.device_id = id)
    IN  IF own = <<>> THEN NoEvent ELSE own[Len(own)]

\* C7: a successful controlDevice(turn_on, manual: true) leaves the device on
\* and overridden, and a device that is on and overridden stays so through
\* every call other than clearManualOverrides and controlDevice, in
\* particular through every update(), whatever the reading.
C7_ManualOverrideHolds ==
    [][ /\ ( /\ IsCall("controlDevice") /\ lastCall'.ret = "true"
             /\ Len(dbEvents') = Len(dbEvents) + 1
             /\ dbEvents'[Len(dbEvents')].event_type = "turn_on"
             /\ dbEvents'[Len(dbEvents')].trigger_reason.text = "Manual control" )
           => /\ Device(devices', dbEvents'[Len(dbEvents')].device_id).status = "on"
              /\ Device(devices', dbEvents'[Len(dbEvents')].device_id).manual_override
        /\ ( /\ opCount' = opCount + 1
             /\ lastCall'.op \notin {"clearManualOverrides", "controlDevice"} )
           => \A i \in 1..Len(devices) :
                 (devices[i].manual_override /\ devices[i].status = "on")
                 => (devices'[i].manual_override /\ devices'[i].status = "on")
      ]_vars

\* scenario 3: the EV charger, automated and medium priority, was turned on
\* by manual control and is still on and overridden after a 3000 W deficit
C7_Witness ==
    /\ lastCall.op = "update" /\ opCount > 0
    /\ lastSurplus = -3000
    /\ LatestEvent(dbEvents, "ev-charger").trigger_reason.text = "Manual control"
    /\ LatestEvent(dbEvents, "ev-charger").event_type = "turn_on"
    /\ Device(devices, "ev-charger").status = "on"
    /\ Device(devices, "ev-charger").manual_override
    /\ Device(devices, "ev-charger").is_automated

\* the EV charger is on, its latest event is the manual turn_on, and
\* clearManualOverrides() was the last call and completed
EvReleased ==
    /\ lastCall = [op |-> "clearManualOverrides", ret |-> "void"]
    /\ Device(devices, "ev-charger").status = "on"
    /\ LatestEvent(dbEvents, "ev-charger").trigger_reason.text = "Manual control"
    /\ LatestEvent(dbEvents, "ev-charger").event_type = "turn_on"

\* C8 as stated: after the manual turn_on of the EV charger and a completed
\* clearManualOverrides(), an update() with surplus -3000 W turns it off.
C8_Original ==
    [][ (EvReleased /\ IsCall("update") /\ lastSurplus' = -3000)
        => Device(devices', "ev-charger").status = "off"
      ]_vars

RECURSIVE ShedBeforeEv(_, _)
\* total draw of the deactivation candidates that the deficit walk meets
\* before the EV charger: the low-priority ones, and the medium-priority ones
\* that precede it in the registry (from position i on)
ShedBeforeEv(devs, i) ==
    IF i > Len(devs) THEN 0
    ELSE (IF /\ devs[i].status = "on" /\ devs[i].is_automated /\ ~devs[i].manual_override
             /\ \/ devs[i].priority = "low"
                \/ devs[i].priority = "medium" /\ i < IndexOf(devs, "ev-charger")
          THEN devs[i].power_consumption ELSE 0)
         + ShedBeforeEv(devs, i + 1)

\* C8 (amended): after the manual turn_on of the EV charger and a completed
\* clearManualOverrides(), an update() with surplus -3000 W turns it off
\* provided it is still automated and the deficit that remains when the walk
\* reaches it (3000 W less the draw of the candidates shed before it) is above
\* 1000 W and not below minSurplusThreshold.
C8_ClearingReenables ==
    [][ ( /\ EvReleased /\ IsCall("update") /\ lastSurplus' = -3000
          /\ Device(devices, "ev-charger").is_automated
          /\ 3000 - ShedBeforeEv(devices, 1) > 1000
          /\ 3000 - ShedBeforeEv(devices, 1) >= minSurplusThreshold )
        => Device(devices', "ev-charger").status = "off"
      ]_vars

\* scenario 4: the EV charger was turned on by manual control and then
\* turned off by the deficit algorithm for a deficit of 3000 W
C8_Witness ==
    /\ lastCall.op = "update" /\ opCount > 0
    /\ lastSurplus = -3000
    /\ Device(devices, "ev-charger").status = "off"
    /\ LatestEvent(dbEvents, "ev-charger") =
           [device_id |-> "ev-charger", event_type |-> "turn_off",
            trigger_reason |-> [text |-> "Energy deficit", watts |-> 3000],
            surplus_watts |-> -3000, success |-> TRUE]
    /\ \E n \in 1..Len(dbEvents) :
          /\ dbEvents[n].device_id = "ev-charger"
          /\ dbEvents[n].trigger_reason.text = "Manual control"
          /\ dbEvents[n].event_type = "turn_on"

\* C9: only controlDevice changes a device's manual_override from false to
\* true.
C9_OnlyControlSetsOverride ==
    [][ \A i \in 1..Len(devices) :
           (~devices[i].manual_override /\ devices'[i].manual_override)
           => IsCall("controlDevice")
      ]_vars

\* controlDevice with manual: true has just put the water heater, which no
\* setup call overrides, under manual override
C9_Witness ==
    /\ lastCall = [op |-> "controlDevice", ret |-> "true"] /\ opCount > 0
    /\ Device(devices, "water-heater").manual_override
    /\ dbEvents # <<>>
    /\ dbEvents[Len(dbEvents)].device_id = "water-heater"
    /\ dbEvents[Len(dbEvents)].trigger_reason.text = "Manual control"

\* C10 as stated: only clearManualOverrides changes a device's
\* manual_override from true to false.
C10_Original ==
    [][ \A i \in 1..Len(devices) :
           (devices[i].manual_override /\ ~devices'[i].manual_override)
           => IsCall("clearManualOverrides")
      ]_vars

\* C10 (amended): a device's manual_override changes from true to false only
\* in clearManualOverrides() and in a controlDevice call with manual: false
\* on that device, which changes no other device and, when it returns true,
\* logs an "Automated control" event for it.
C10_ClearOrAutomatedControl ==
    [][ \A i \in 1..Len(devices) :
           (devices[i].manual_override /\ ~devices'[i].manual_override)
           => \/ IsCall("clearManualOverrides")
              \/ /\ IsCall("controlDevice")
                 /\ lastCall'.ret # "false"
                 /\ \A j \in 1..Len(devices) : j # i => devices'[j] = devices[j]
                 /\ lastCall'.ret = "true"
                    => /\ Len(dbEvents') = Len(dbEvents) + 1
                       /\ dbEvents'[Len(dbEvents')].device_id = devices[i].id
                       /\ dbEvents'[Len(dbEvents')].trigger_reason.text
                              = "Automated control"
      ]_vars

\* the EV charger was put under manual override and then released by a
\* controlDevice call with manual: false; the air conditioning is still
\* overridden, so clearManualOverrides() has not run
C10_Witness ==
    /\ lastCall = [op |-> "controlDevice", ret |-> "true"] /\ opCount > 0
    /\ Len(dbEvents) >= 2
    /\ dbEvents[Len(dbEvents)].device_id = "ev-charger"
    /\ dbEvents[Len(dbEvents)].trigger_reason.text = "Automated control"
    /\ dbEvents[Len(dbEvents) - 1].device_id = "ev-charger"
    /\ dbEvents[Len(dbEvents) - 1].trigger_reason.text = "Manual control"
    /\ ~Device(devices, "ev-charger").manual_override
    /\ Device(devices, "air-conditioning").manual_override

\* C11: whenever a call of clearManualOverrides() ends, normally or with a
\* persistence error, no device of the registry has manual_override true and
\* the call changed no device's status.
C11_BulkClear ==
    [][ IsCall("clearManualOverrides")
        => /\ \A i \in 1..Len(devices') : ~devices'[i].manual_override
           /\ \A i \in 1..Len(devices) : devices'[i].status = devices[i].status
      ]_vars

\* activateDevice / deactivateDevice on this id meets a precondition violation:
\* the id is unknown, the device is already in the target state or it is
\* under manual override
PreconditionViolated(devs, id, target) ==
    \/ IndexOf(devs, id) = 0
    \/ Device(devs, id).status = target
    \/ Device(devs, id).manual_override

\* C12: activateDevice(id) / deactivateDevice(id) return false, without
\* throwing, changing no device and appending no event, when the id is
\* unknown, the device is already in the target state (on for activate, off
\* for deactivate) or the device has manual_override true.
C12_PreconditionNoOp ==
    [][ ( \/ /\ IsCall("activateDevice")
             /\ PreconditionViolated(devices, lastArg'.device_id, "on")
          \/ /\ IsCall("deactivateDevice")
             /\ PreconditionViolated(devices, lastArg'.device_id, "off") )
        => /\ lastCall'.ret = "false"
           /\ devices' = devices
           /\ dbDevices' = dbDevices
           /\ dbEvents' = dbEvents
      ]_vars

\* activateDevice was called on the air conditioning, which is under manual
\* override and not on, and returned false
C12_Witness ==
    /\ opCount > 0
    /\ lastCall = [op |-> "activateDevice", ret |-> "false"]
    /\ lastArg.device_id = "air-conditioning"
    /\ Device(devices, "air-conditioning").manual_override
    /\ Device(devices, "air-conditioning").status = "auto"

\* the reason controlDevice logs for this value of control.manual
ControlReason(manual) == IF manual THEN "Manual control" ELSE "Automated control"

\* this step appends to the event log exactly one event, for device id with
\* this reason text
AppendsOneEvent(id, text) ==
    /\ Len(dbEvents') = Len(dbEvents) + 1
    /\ SubSeq(dbEvents', 1, Len(dbEvents)) = dbEvents
    /\ dbEvents'[Len(dbEvents')].device_id = id
    /\ dbEvents'[Len(dbEvents')].trigger_reason.text = text

\* C13 as stated: controlDevice on an existing device always returns true,
\* sets manual_override to control.manual and appends exactly one event, with
\* reason "Manual control" when manual is true and "Automated control" when
\* it is false; on an unknown id it returns false and changes neither the
\* registry nor the event log.
C13_Original ==
    [][ IsCall("controlDevice")
        => IF IndexOf(devices, lastArg'.device_id) # 0
           THEN /\ lastCall'.ret = "true"
                /\ Device(devices', lastArg'.device_id).manual_override = lastArg'.manual
                /\ AppendsOneEvent(lastArg'.device_id, ControlReason(lastArg'.manual))
           ELSE /\ lastCall'.ret = "false"
                /\ devices' = devices
                /\ dbEvents' = dbEvents
      ]_vars

\* C13 (amended): controlDevice on an existing device sets manual_override to
\* control.manual; when the database accepts its writes it returns true and
\* appends exactly one event, with reason "Manual control" when manual is
\* true and "Automated control" when it is false; when a write is rejected
\* the call throws and appends no event.  On an unknown id it returns false
\* and changes neither the registry nor the event log.
C13_ControlDeviceOutcome ==
    [][ IsCall("controlDevice")
        => IF IndexOf(devices, lastArg'.device_id) # 0
           THEN /\ Device(devices', lastArg'.device_id).manual_override = lastArg'.manual
                /\ IF faultsLeft' = faultsLeft
                   THEN /\ lastCall'.ret = "true"
                        /\ AppendsOneEvent(lastArg'.device_id,
                                           ControlReason(lastArg'.manual))
                   ELSE /\ lastCall'.ret = "throw"
                        /\ dbEvents' = dbEvents
           ELSE /\ lastCall'.ret = "false"
                /\ devices' = devices
                /\ dbEvents' = dbEvents
      ]_vars

\* controlDevice with manual: false on the water heater returned true and
\* logged an "Automated control" event for it
C13_Witness ==
    /\ opCount > 0
    /\ lastCall = [op |-> "controlDevice", ret |-> "true"]
    /\ lastArg.device_id = "water-heater" /\ ~lastArg.manual
    /\ ~Device(devices, "water-heater").manual_override
    /\ dbEvents # <<>>
    /\ dbEvents[Len(dbEvents)].device_id = "water-heater"
    /\ dbEvents[Len(dbEvents)].trigger_reason.text = "Automated control"

\* this step is a public call during which the database rejected a write
MetFault == opCount' = opCount + 1 /\ faultsLeft' < faultsLeft

\* C14: when the device save or the event append throws inside
\* activateDevice, deactivateDevice or controlDevice, the call ends with a
\* fault delivered to its caller, not with a normal return value.
C14_FailuresPropagate ==
    [][ ( /\ MetFault
          /\ lastCall'.op \in {"activateDevice", "deactivateDevice", "controlDevice"} )
        => lastCall'.ret = "throw"
      ]_vars

\* the number of events that this step appends to the log for device id
NewEvents(id) ==
    Len(SelectSeq(SubSeq(dbEvents', Len(dbEvents) + 1, Len(dbEvents')),
                  LAMBDA e : e.device_id = id))

\* C15: when the device save or the event append throws during
\* activateDevice or deactivateDevice, called directly or from a tick, the
\* in-memory status of the device keeps the new value: on after a direct
\* activateDevice, off after a direct deactivateDevice, and after a tick some
\* device has the status the tick gives (on under a surplus, off under a
\* deficit) with no event logged for it.
C15_NoRollback ==
    [][ MetFault
        => /\ lastCall'.op = "activateDevice"
              => Device(devices', lastArg'.device_id).status = "on"
           /\ lastCall'.op = "deactivateDevice"
              => Device(devices', lastArg'.device_id).status = "off"
           /\ lastCall'.op = "update"
              => \E i \in 1..Len(devices) :
                    /\ devices'[i].status # devices[i].status
                    /\ devices'[i].status = IF lastSurplus' > 0 THEN "on" ELSE "off"
                    /\ NewEvents(devices[i].id) = 0
      ]_vars

\* activateDevice on the water heater met a rejected save and returned false:
\* the registry has the device on, its database row is still off
C15_Witness ==
    /\ opCount > 0
    /\ faultsLeft < MaxFaults
    /\ lastCall = [op |-> "activateDevice", ret |-> "false"]
    /\ lastArg.device_id = "water-heater"
    /\ Device(devices, "water-heater").status = "on"
    /\ dbDevices["water-heater"].status = "off"

InvalidConfig(config) ==
    \/ config.hasThreshold /\ config.minSurplusThreshold <= 0
    \/ config.hasCategories /\ ~(config.enabledCategories \subseteq DeviceCategory)

\* this step leaves the threshold and the registry that setConfiguration(config)
\* leaves
Configures(config) ==
    /\ IsCall("setConfiguration")
    /\ minSurplusThreshold' = setConfiguration(CurrentState, config).minSurplusThreshold
    /\ devices' = setConfiguration(CurrentState, config).devices

\* C17: setConfiguration with an invalid threshold (zero or negative) or with
\* an unknown category in enabledCategories is rejected: minSurplusThreshold
\* and every device's is_automated are unchanged.
C17_ConfigurationValidation ==
    [][ \A config \in Configs :
           (InvalidConfig(config) /\ Configures(config))
           => /\ minSurplusThreshold' = minSurplusThreshold
              /\ \A i \in 1..Len(devices) :
                    devices'[i].is_automated = devices[i].is_automated
      ]_vars

\* 1 when this step changes the in-memory status of device i, else 0
StatusChanges(i) == IF devices'[i].status # devices[i].status THEN 1 ELSE 0

\* this step is a call of update, activateDevice, deactivateDevice or
\* controlDevice
IsToggleCall ==
    /\ opCount' = opCount + 1
    /\ lastCall'.op \in {"update", "activateDevice", "deactivateDevice", "controlDevice"}

\* C18 as stated: in every call of update, activateDevice, deactivateDevice
\* or controlDevice (persistence failing or not) the number of events
\* appended for a device equals the number of changes of its in-memory
\* status, so that the two counts agree over any sequence of calls.
C18_Original ==
    [][ IsToggleCall
        => \A i \in 1..Len(devices) : NewEvents(devices[i].id) = StatusChanges(i)
      ]_vars

\* C18 (amended): in every call of update, activateDevice, deactivateDevice or
\* controlDevice the events appended for a device are as many as the changes
\* of its in-memory status, with two exceptions: a controlDevice call that
\* returns true appends exactly one event for its device whether or not the
\* status changes, and a call during which a database write is rejected may
\* change a status without appending an event (never the reverse).
C18_OneEventPerToggle ==
    [][ IsToggleCall
        => \A i \in 1..Len(devices) :
              IF MetFault
              THEN NewEvents(devices[i].id) <= StatusChanges(i)
              ELSE IF lastCall'.op = "controlDevice" /\ lastArg'.device_id = devices[i].id
              THEN NewEvents(devices[i].id) = 1
              ELSE NewEvents(devices[i].id) = StatusChanges(i)
      ]_vars

\* controlDevice turn_on was called on the pool pump, which activateDevice had
\* turned on already: its status did not change and it has two events
C18_Witness ==
    /\ opCount > 0
    /\ lastCall = [op |-> "controlDevice", ret |-> "true"]
    /\ lastArg.device_id = "pool-pump" /\ lastArg.action = "turn_on"
    /\ Len(dbEvents) >= 2
    /\ dbEvents[Len(dbEvents)].device_id = "pool-pump"
    /\ dbEvents[Len(dbEvents)].event_type = "turn_on"
    /\ dbEvents[Len(dbEvents) - 1].device_id = "pool-pump"
    /\ dbEvents[Len(dbEvents) - 1].event_type = "turn_on"
    /\ dbEvents[Len(dbEvents) - 1].trigger_reason.text = "api request"

\* C20: after any sequence of public operations, the active_devices of
\* getAutomationStats() is the number of devices of the registry that are on
\* and automated.
C20_StatsDerivable ==
    getAutomationStats.active_devices
        = Cardinality({ i \in 1..Len(devices) :
                            devices[i].status = "on" /\ devices[i].is_automated })

\* the write that a tick awaits is pending: a device save or an event append
\* that has neither completed nor failed
WritePending(t) == t \in DOMAIN ticks /\ ticks[t].pc \in {"save", "event"}

\* tick t builds its candidate list in this step: it reads the registry
ReadsRegistry(t) == t \notin DOMAIN ticks /\ t \in DOMAIN ticks' /\ ticks'[t].read

\* C19: ticks are serialized: when update() is called before an earlier call
\* has finished, the later call does not read the registry to build its
\* candidate list until every device save and event append of the earlier
\* tick has completed or failed
C19_TicksSerialized ==
    [][\A t \in TickIds :
          ReadsRegistry(t) => \A u \in TickIds \ {t} : ~WritePending(u)]_vars

\* C21: getAutomationRecommendations is read-only: for every reading and every
\* registry state the call changes no device field, no statistic, neither
\* lastSurplus nor minSurplusThreshold, and appends no event.
C21_RecommendationsReadOnly ==
    [][ IsCall("getAutomationRecommendations")
        => /\ devices' = devices
           /\ automationStats' = automationStats
           /\ lastSurplus' = lastSurplus
           /\ minSurplusThreshold' = minSurplusThreshold
           /\ dbEvents' = dbEvents
           /\ dbDevices' = dbDevices
      ]_vars

\* recommendations were asked for in a state where a reading yields both an
\* activate and a deactivate recommendation, so both getters sorted a copy
C21_Witness ==
    /\ lastCall.op = "getAutomationRecommendations" /\ opCount > 0
    /\ \E p \in Readings, q \in Readings :
          /\ p.P_PV - p.P_Load > 500
          /\ q.P_PV - q.P_Load < -200
          /\ getAutomationRecommendations(CurrentState, p) # <<>>
          /\ getAutomationRecommendations(CurrentState, q) # <<>>

RECURSIVE ActivatedBefore(_, _, _)
\* total draw of the candidates before position k of the list that are on in after
ActivatedBefore(list, after, k) ==
    IF k <= 1 THEN 0
    ELSE ActivatedBefore(list, after, k - 1)
         + (IF Device(after, list[k - 1].id).status = "on"
            THEN list[k - 1].power_consumption ELSE 0)

\* the category predicate of the claim: appliance only for hours 10..16, pool
\* only for hours 8..18, ev_charging only when the remaining surplus exceeds
\* 2000, every other category at any hour
CategoryAllows(device, hour, remaining) ==
    CASE device.category = "appliance" -> hour \in 10..16
      [] device.category = "pool" -> hour \in 8..18
      [] device.category = "ev_charging" -> remaining > 2000
      [] OTHER -> TRUE

\* candidate k of the list is eligible: it draws no more than what remains of
\* the surplus S after the candidates activated before it, and its category
\* predicate holds
Eligible(list, after, k, hour, S) ==
    LET remaining == S - ActivatedBefore(list, after, k)
    IN  /\ list[k].power_consumption <= remaining
        /\ CategoryAllows(list[k], hour, remaining)

\* the walk has stopped before candidate k: after an earlier activation the
\* remaining surplus was below the threshold
StoppedBefore(list, after, k, S, threshold) ==
    \E j \in 1..(k - 1) :
        /\ Device(after, list[j].id).status = "on"
        /\ S - ActivatedBefore(list, after, j + 1) < threshold

\* this step is a surplus tick: update() with a positive surplus outside the
\* hysteresis band
SurplusTick ==
    IsCall("update") /\ lastSurplus' > 0 /\ lastSurplus' >= minSurplusThreshold

\* C22 as stated: in a surplus tick a candidate is turned on if and only if
\* its power_consumption is at most the remaining surplus and its category
\* predicate holds at the current hour.
C22_Original ==
    [][ SurplusTick
        => LET list == getAvailableDevicesForActivation(devices) IN
           \A h \in Hours :
              \/ \A k \in 1..Len(list) :
                    Device(devices', list[k].id).status = "on"
                    <=> Eligible(list, devices', k, h, lastSurplus')
              \/ ~TickAt(h)
      ]_vars

\* C22 (amended): in a surplus tick a candidate is turned on if and only if
\* the walk has not stopped before it (the remaining surplus has not dropped
\* below minSurplusThreshold after an earlier activation), its
\* power_consumption is at most the remaining surplus and its category
\* predicate holds at the current hour.
C22_ActivationEligibility ==
    [][ SurplusTick
        => LET list == getAvailableDevicesForActivation(devices) IN
           \A h \in Hours :
              \/ \A k \in 1..Len(list) :
                    Device(devices', list[k].id).status = "on"
                    <=> /\ ~StoppedBefore(list, devices', k, lastSurplus',
                                          minSurplusThreshold)
                        /\ Eligible(list, devices', k, h, lastSurplus')
              \/ ~TickAt(h)
      ]_vars

\* with the threshold at 1500 W, a tick with surplus 3300 W turned the water
\* heater on and stopped with 1300 W left, the washing machine (1200 W) still
\* a candidate
C22_Witness ==
    /\ lastCall.op = "update" /\ opCount > 0
    /\ lastSurplus = 3300
    /\ minSurplusThreshold = 1500
    /\ LatestEvent(dbEvents, "water-heater").trigger_reason =
           [text |-> "Solar surplus", watts |-> 3300]
    /\ IsActivationCandidate(Device(devices, "washing-machine"))

RECURSIVE ShedBefore(_, _, _)
\* total draw of the devices before position k of the list that are off in after
ShedBefore(list, after, k) ==
    IF k <= 1 THEN 0
    ELSE ShedBefore(list, after, k - 1)
         + (IF Device(after, list[k - 1].id).status = "off"
            THEN list[k - 1].power_consumption ELSE 0)

\* C23: in a deficit tick a medium-priority device is turned off only if
\* every low-priority candidate (on, automated, not overridden) was turned off
\* in the same tick, and no device is turned off after the remaining deficit
\* (the input deficit minus the draw of the devices already shed in the tick)
\* has dropped below minSurplusThreshold.
C23_SheddingOrder ==
    [][ (IsCall("update") /\ lastSurplus' < 0)
        => LET list == getActiveAutomatedDevices(devices)
               deficit == -lastSurplus'
           IN  /\ \A i \in 1..Len(devices) :
                     ( /\ devices[i].priority = "medium"
                       /\ devices[i].status = "on"
                       /\ devices'[i].status = "off" )
                     => \A j \in 1..Len(devices) :
                           ( /\ devices[j].priority = "low"
                             /\ IsDeactivationCandidate(devices[j]) )
                           => devices'[j].status = "off"
               /\ \A k \in 1..Len(list) :
                     Device(devices', list[k].id).status = "off"
                     => \A j \in 1..(k - 1) :
                           Device(devices', list[j].id).status = "off"
                           => deficit - ShedBefore(list, devices', j + 1)
                                 >= minSurplusThreshold
      ]_vars

\* a tick with a deficit of 1500 W shed the low-priority pool pump and then
\* the medium-priority dishwasher, which left less than the threshold, and the
\* medium-priority EV charger is still on under automation
C23_Witness ==
    /\ lastCall.op = "update" /\ opCount > 0
    /\ lastSurplus = -1500
    /\ LatestEvent(dbEvents, "pool-pump").trigger_reason =
           [text |-> "Energy deficit", watts |-> 1500]
    /\ LatestEvent(dbEvents, "dishwasher").trigger_reason =
           [text |-> "Energy deficit", watts |-> 1500]
    /\ IsDeactivationCandidate(Device(devices, "ev-charger"))

\* C24: update() never turns off a device of priority high, for every deficit
\* and every hour, the evening peak 18..22 included; with a deficit of 1500 W
\* at hour 19 and the pool pump (low) and the water heater (high) on under
\* automation, the pool pump is turned off and the water heater stays on.
C24_HighNeverShed ==
    [][ IsCall("update")
        => /\ \A i \in 1..Len(devices) :
                 (devices[i].priority = "high" /\ devices[i].status = "on")
                 => devices'[i].status = "on"
           /\ ( /\ lastSurplus' = -1500
                /\ minSurplusThreshold <= 1500
                /\ IsDeactivationCandidate(Device(devices, "pool-pump"))
                /\ IsDeactivationCandidate(Device(devices, "water-heater"))
                /\ TickAt(19) )
              => /\ Device(devices', "pool-pump").status = "off"
                 /\ Device(devices', "water-heater").status = "on"
      ]_vars

\* a tick with a deficit of 1500 W shed the pool pump and then the dishwasher,
\* which a deficit of 700 W sheds in the evening peak only, and the water
\* heater is still on under automation
C24_Witness ==
    /\ lastCall.op = "update" /\ opCount > 0
    /\ lastSurplus = -1500
    /\ LatestEvent(dbEvents, "pool-pump").event_type = "turn_off"
    /\ LatestEvent(dbEvents, "dishwasher").event_type = "turn_off"
    /\ LatestEvent(dbEvents, "washing-machine") = NoEvent
    /\ IsDeactivationCandidate(Device(devices, "water-heater"))

\* C25: every event appended by a tick of update() carries surplus_watts equal
\* to P_PV - P_Load of the reading that the tick is processing, also when a
\* second update() with another reading starts while the first tick awaits
\* persistence.
C25_EventSurplusSnapshot ==
    [][ Len(dbEvents') = Len(dbEvents) + 1
        => \E t \in DOMAIN ticks :
              /\ ticks[t].pc = "event"
              /\ ticks'[t] # ticks[t]
              /\ dbEvents'[Len(dbEvents')].surplus_watts = ticks[t].surplus
      ]_vars

\* C26: controlDevice with action 'toggle' on a device whose status is off
\* sets the status to on, on a device whose status is on sets it to off, and
\* the event_type of the logged event matches the new status.
C26_ToggleInverts ==
    [][ (IsCall("controlDevice") /\ lastArg'.action = "toggle")
        => \A i \in 1..Len(devices) :
              (devices[i].id = lastArg'.device_id /\ devices[i].status \in {"on", "off"})
              => /\ devices'[i].status = IF devices[i].status = "off" THEN "on" ELSE "off"
                 /\ Len(dbEvents') = Len(dbEvents) + 1
                 /\ dbEvents'[Len(dbEvents')].event_type =
                        IF devices'[i].status = "on" THEN "turn_on" ELSE "turn_off"
      ]_vars

\* C27: once the constructor has returned, every public operation (getDevices,
\* getDevice, update, controlDevice) sees all six seed devices in the registry,
\* whatever the timing or the outcome of the persistence writes of the seeds.
C27_BootstrapComplete ==
    [][ (IsCall("update") \/ IsCall("controlDevice"))
        => \A id \in DeviceIds : IndexOf(devices, id) # 0
      ]_vars

\* C28: event ids are unique: over any sequence of activateDevice,
\* deactivateDevice and controlDevice calls no two appended events have the
\* same id, two toggles of the same device within one value of the
\* millisecond clock included.
C28_EventIdsUnique ==
    /\ Len(eventIds) = Len(dbEvents)
    /\ \A i \in DOMAIN eventIds : \A j \in DOMAIN eventIds :
          eventIds[i] = eventIds[j] => i = j

\* the second of two toggles of one device within a millisecond: the device
\* was turned on, its event was appended, and the deactivateDevice that
\* followed before the clock advanced has turned it off and returned false
C28_Witness ==
    /\ opCount = 2
    /\ lastCall = [op |-> "deactivateDevice", ret |-> "false"]
    /\ lastArg.device_id \in ToggleIds
    /\ Device(devices, lastArg.device_id).status = "off"
    /\ ~Device(devices, lastArg.device_id).manual_override
    /\ eventIds # <<>>
    /\ eventIds[Len(eventIds)] = <<now, lastArg.device_id>>
    /\ dbEvents[Len(dbEvents)].event_type = "turn_on"

\* this step is a call op of the SmartFroniusClient
IsClientCall(op) == fronius'.parity # fronius.parity /\ fronius'.lastOp = op

\* C29: for every combination of failures of the real client and of the
\* enhanced mock, and from every current mode, getCurrentData returns power
\* data without throwing, having tried the current mode first and the basic
\* mock last; after it returns, status.connected is true and status.mode is
\* the mode that supplied the data.
C29_FallbackYieldsData ==
    [][ IsClientCall("getCurrentData")
        => /\ fronius'.lastRet \in FroniusMode
           /\ fronius'.tried # <<>>
           /\ fronius'.tried[1] = fronius.currentMode
           /\ fronius'.tried[Len(fronius'.tried)] = fronius'.lastRet
           /\ \A i \in 1..Len(fronius'.tried) :
                 fronius'.tried[i] = "basic_mock" => i = Len(fronius'.tried)
           /\ \A i \in 1..(Len(fronius'.tried) - 1) :
                 ~getCurrentDataFromMode(fronius, fronius'.tried[i])
           /\ fronius'.status.connected
           /\ fronius'.status.mode = fronius'.lastRet
      ]_vars

\* getCurrentData was called in mode REAL while neither the inverter nor the
\* enhanced mock answered: it tried the three sources in turn
C29_Witness ==
    /\ fronius.lastOp = "getCurrentData"
    /\ fronius.tried = <<"real", "enhanced_mock", "basic_mock">>
    /\ fronius.lastRet = "basic_mock"
    /\ fronius.hasReal /\ ~fronius.realUp /\ ~fronius.enhancedUp

\* C30: mode recovery: when a real client is configured and the inverter
\* answers from some moment on, the periodic connection test sets the current
\* mode back to REAL again and again; and when a better source works from
\* some moment on, the client does not stay in a lower mode forever: with the
\* enhanced mock or the inverter answering it does not stay in BASIC_MOCK.
C30_ModeRecovery ==
    /\ <>[](fronius.hasReal /\ fronius.realUp) => []<>(fronius.currentMode = "real")
    /\ <>[](fronius.enhancedUp \/ (fronius.hasReal /\ fronius.realUp))
          => ~<>[](fronius.currentMode = "basic_mock")

====
